---------------------------- MODULE Spec2Model ----------------------------
(***************************************************************************)
(* Grid layout, A* routing and canvas compositing of the ASCII renderer    *)
(* (src/src/pretty_mermaid/ascii).  Coordinates are pairs <<x, y>>.        *)
(***************************************************************************)
EXTENDS Integers, Sequences, FiniteSets, TLC

(***************************************************************************)
(* Bounds of the model.                                                    *)
(***************************************************************************)
MaxNodes == 3
MaxEdges == 2
MaxCanvasX == 1
MaxOverlays == 2
MaxCoord == 4
WindowMargin == 3
MaxPathLen == 4
MaxRenderNodes == 2
MaxRenderEdges == 2
MaxRouteNodes == 4
LabelLen == 2
NodeLabelLen == 1
MaxSubgraphs == 2
MaxBoxNodes == 3
MaxBoxEdges == 1
MaxChainNodes == 25
MaxDrawNodes == 2
MaxDrawEdges == 1
MaxDrawSubgraphs == 1
MaxGrowX == 1
MaxGrowY == 1
MaxSizeNodes == 2
MaxSizeEdges == 1
MaxSizeSubgraphs == 1
MaxLabelLen == 2
MaxPadding == 1
MaxFlipX == 1
MaxFlipY == 1

(***************************************************************************)
(* Program constants.                                                      *)
(***************************************************************************)
LevelSlots == 100
LevelStep == 4
BlockSize == 3
CornerPenalty == 1
SubgraphOverhead == 4
SubgraphPadding == 2
SubgraphLabelSpace == 2
MinSpacing == 1

VARIABLES
    numNodes,                   \* len(graph.nodes); nodes are 1..numNodes in list order
    edges,                      \* graph.edges: sequence of <<from, to>>
    graph_direction,            \* graph.config.graph_direction
    subgraphNodes,              \* nodes that belong to some subgraph
    grid,                       \* graph.grid: occupied cell -> owning node
    grid_coord,                 \* node.grid_coord, None when not placed
    highest_position_per_level, \* create_mapping's list, non-zero slots only
    root_nodes,                 \* create_mapping's root_nodes
    external_root_nodes,        \* roots still to place at level 0
    subgraph_root_nodes,        \* roots still to place at level 4
    cursor,                     \* index of the node the child loop is at
    pc,                         \* position in create_mapping
    c1, c2,                     \* merge_junctions: its two arguments
    junction,                   \* merge_junctions: its result, "" before the call
    base,                       \* merge_canvases: the base canvas
    offset,                     \* merge_canvases: the offset <<x, y>>
    use_ascii,                  \* config.use_ascii
    overlays,                   \* merge_canvases: the overlay canvases, in call order
    merged,                     \* merge_canvases: its result, None before the call
    from_coord, to_coord,       \* get_path: start and goal
    pq,                         \* get_path: MinHeap._items, each <<coord, priority>>
    cost_so_far,                \* get_path: cell -> cost
    came_from,                  \* get_path: cell -> predecessor (None for the start)
    search,                     \* get_path: "searching", "found", "none" or "escaped"
    path,                       \* get_path: the returned path
    raw_path,                   \* merge_path: its argument
    merged_path,                \* merge_path: its result
    remerged_path,              \* merge_path: its result on merged_path
    simplify_pc,                \* "start", "once" (merged) or "twice" (merged again)
    edge_text_len,              \* len(edge.text) of every edge
    subgraphs,                  \* graph.subgraphs: [nodes, parent], parent 0 for a root
    display_label,              \* node.display_label of every node, a sequence of characters
    bottom_to_top,              \* parsed.direction == "BT"
    padding_x,                  \* graph.config.padding_x
    padding_y,                  \* graph.config.padding_y
    box_border_padding,         \* graph.config.box_border_padding
    column_width,               \* graph.column_width
    row_height,                 \* graph.row_height
    edge_idx,                   \* index of the edge the edge loops are at
    edge_path,                  \* edge.path of every edge
    start_dir,                  \* edge.start_dir of every edge
    end_dir,                    \* edge.end_dir of every edge
    label_line,                 \* edge.label_line of every edge
    drawing_coord,              \* node.drawing_coord, None before line 460 of grid.py
    drawing,                    \* node.drawing: the size <<max_x, max_y>> of the box canvas
    canvas_size,                \* get_canvas_size(graph.canvas)
    sg_box,                     \* <<min_x, min_y, max_x, max_y>> of every subgraph
    offset_x,                   \* graph.offset_x
    offset_y,                   \* graph.offset_y
    written,                    \* the cells draw_arrow addresses, for every edge
    layers_size,                \* largest size among the canvases draw_arrow has returned
    node_idx,                   \* index of the node the loop of line 448 is at
    canvas,                     \* graph.canvas
    layers,                     \* the five canvases draw_arrow returned, for every edge
    rpc,                        \* position in create_mapping (from line 447) and draw_graph
    target_canvas,              \* increase_size: the canvas before the call
    requested_x,                \* increase_size: its argument new_x
    requested_y,                \* increase_size: its argument new_y
    grown_canvas,               \* increase_size: the canvas after the call
    grow_pc,                    \* "start" or "grown"
    flip_canvas,                \* flip_canvas_vertically: the canvas before the first call
    flipped_once,               \* the canvas after one call
    flipped_twice,              \* the canvas after two calls
    flip_pc,                    \* "start", "once" or "twice"
    heap_items,                 \* MinHeap._items: a sequence of <<coord, priority>>
    heap_returned,              \* what the last MinHeap operation returned
    heap_op                     \* the last MinHeap operation

placeVars == <<numNodes, edges, graph_direction, subgraphNodes, grid, grid_coord,
               highest_position_per_level, root_nodes, external_root_nodes,
               subgraph_root_nodes, cursor, pc>>

junctionVars == <<c1, c2, junction>>

canvasVars == <<base, offset, use_ascii, overlays, merged>>

pathVars == <<from_coord, to_coord, pq, cost_so_far, came_from, search, path>>

simplifyVars == <<raw_path, merged_path, remerged_path, simplify_pc>>

renderVars == <<subgraphs, display_label, bottom_to_top, node_idx, canvas, layers,
                edge_text_len, padding_x, padding_y, box_border_padding, column_width,
                row_height, edge_idx, edge_path, start_dir, end_dir, label_line,
                drawing_coord, drawing, canvas_size, sg_box, offset_x, offset_y, written,
                layers_size, rpc>>

growVars == <<target_canvas, requested_x, requested_y, grown_canvas, grow_pc>>

flipVars == <<flip_canvas, flipped_once, flipped_twice, flip_pc>>

heapVars == <<heap_items, heap_returned, heap_op>>

vars == <<placeVars, junctionVars, canvasVars, pathVars, simplifyVars, renderVars, growVars, flipVars, heapVars>>

notPlaceVars == <<junctionVars, canvasVars, pathVars, simplifyVars, renderVars, growVars, flipVars, heapVars>>
notJunctionVars == <<placeVars, canvasVars, pathVars, simplifyVars, renderVars, growVars, flipVars, heapVars>>
notCanvasVars == <<placeVars, junctionVars, pathVars, simplifyVars, renderVars, growVars, flipVars, heapVars>>
notPathVars == <<placeVars, junctionVars, canvasVars, simplifyVars, renderVars, growVars, flipVars, heapVars>>
notSimplifyVars == <<placeVars, junctionVars, canvasVars, pathVars, renderVars, growVars, flipVars, heapVars>>
notRenderVars == <<placeVars, junctionVars, canvasVars, pathVars, simplifyVars, growVars, flipVars, heapVars>>
notGrowVars == <<placeVars, junctionVars, canvasVars, pathVars, simplifyVars, renderVars, flipVars, heapVars>>
notFlipVars == <<placeVars, junctionVars, canvasVars, pathVars, simplifyVars, renderVars, growVars, heapVars>>
notHeapVars == <<placeVars, junctionVars, canvasVars, pathVars, simplifyVars, renderVars, growVars, flipVars>>

None == <<>>
Nodes == 1..numNodes
EmptyGrid == [c \in {} |-> 0]

(***************************************************************************)
(* Small helpers on sequences.                                             *)
(***************************************************************************)
RECURSIVE SeqFilter(_, _)
SeqFilter(s, keep) ==
    IF s = <<>> THEN <<>>
    ELSE (IF Head(s) \in keep THEN <<Head(s)>> ELSE <<>>) \o SeqFilter(Tail(s), keep)

SeqRange(s) == {s[i] : i \in 1..Len(s)}

(***************************************************************************)
(* grid.py: traversal helpers.                                             *)
(***************************************************************************)
RECURSIVE ChildrenIn(_, _)
ChildrenIn(es, node) ==
    IF es = <<>> THEN <<>>
    ELSE (IF Head(es)[1] = node THEN <<Head(es)[2]>> ELSE <<>>) \o ChildrenIn(Tail(es), node)

get_children(node) == ChildrenIn(edges, node)

is_node_in_any_subgraph(node) == node \in subgraphNodes

(***************************************************************************)
(* grid.py: reserve_spot_in_grid.                                          *)
(***************************************************************************)
Block(c) == {<<c[1] + dx, c[2] + dy>> : dx \in 0..(BlockSize - 1), dy \in 0..(BlockSize - 1)}

ShiftedSpot(dir, requested) ==
    IF dir = "LR" THEN <<requested[1], requested[2] + LevelStep>>
    ELSE <<requested[1] + LevelStep, requested[2]>>

RECURSIVE FreeSpot(_, _, _)
FreeSpot(g, dir, requested) ==
    IF requested \in DOMAIN g THEN FreeSpot(g, dir, ShiftedSpot(dir, requested))
    ELSE requested

ReserveAt(g, node, spot) ==
    [c \in DOMAIN g \cup Block(spot) |-> IF c \in Block(spot) THEN node ELSE g[c]]

(***************************************************************************)
(* grid.py: create_mapping, root identification (lines 361-397).           *)
(***************************************************************************)
RECURSIVE RootScan(_, _, _)
RootScan(i, found, roots) ==
    IF i > numNodes THEN roots
    ELSE RootScan(i + 1,
                  found \cup {i} \cup SeqRange(get_children(i)),
                  IF i \in found THEN roots ELSE Append(roots, i))

\* The roots as the nodes that no edge points to, whatever their place in
\* the list.
FoundRoots_NonTargets ==
    SeqFilter([n \in 1..numNodes |-> n],
              {n \in 1..numNodes : \A i \in 1..Len(edges) : edges[i][2] # n})

FoundRoots == RootScan(1, {}, <<>>)

has_external_roots(roots) == \E r \in SeqRange(roots) : ~is_node_in_any_subgraph(r)

has_subgraph_roots_with_edges(roots) ==
    \E r \in SeqRange(roots) : is_node_in_any_subgraph(r) /\ Len(get_children(r)) > 0

should_separate(roots) ==
    /\ graph_direction = "LR"
    /\ has_external_roots(roots)
    /\ has_subgraph_roots_with_edges(roots)

NextPosition_Half(position) == position + 2

NextPosition(position) == position + LevelStep

Level(h, l) == IF l \in DOMAIN h THEN h[l] ELSE 0
SetLevel(h, l, v) == [k \in DOMAIN h \cup {l} |-> IF k = l THEN v ELSE h[k]]

FindRoots ==
    /\ pc = "find_roots"
    /\ LET roots == FoundRoots
           sep == should_separate(roots)
       IN /\ root_nodes' = roots
          /\ external_root_nodes' =
                IF sep THEN SeqFilter(roots, Nodes \ subgraphNodes) ELSE roots
          /\ subgraph_root_nodes' =
                IF sep THEN SeqFilter(roots, subgraphNodes) ELSE <<>>
    /\ pc' = "place_roots"
    /\ UNCHANGED notPlaceVars
    /\ UNCHANGED <<numNodes, edges, graph_direction, subgraphNodes, grid, grid_coord,
                   highest_position_per_level, cursor>>

(***************************************************************************)
(* create_mapping, lines 399-406: one iteration per external root.         *)
(***************************************************************************)
PlaceAt(node, requested, level) ==
    LET spot == FreeSpot(grid, graph_direction, requested)
    IN /\ grid' = ReserveAt(grid, node, spot)
       /\ grid_coord' = [grid_coord EXCEPT ![node] = spot]
       /\ highest_position_per_level' =
             SetLevel(highest_position_per_level, level,
                      NextPosition(Level(highest_position_per_level, level)))

PlaceRoot ==
    /\ pc = "place_roots"
    /\ external_root_nodes # <<>>
    /\ LET node == Head(external_root_nodes)
           hp == Level(highest_position_per_level, 0)
       IN PlaceAt(node, IF graph_direction = "LR" THEN <<0, hp>> ELSE <<hp, 0>>, 0)
    /\ external_root_nodes' = Tail(external_root_nodes)
    /\ UNCHANGED notPlaceVars
    /\ UNCHANGED <<numNodes, edges, graph_direction, subgraphNodes, root_nodes,
                   subgraph_root_nodes, cursor, pc>>

(***************************************************************************)
(* create_mapping, lines 408-423: subgraph roots one level in.             *)
(***************************************************************************)
PlaceSubgraphRoot ==
    /\ pc = "place_roots"
    /\ external_root_nodes = <<>>
    /\ subgraph_root_nodes # <<>>
    /\ LET node == Head(subgraph_root_nodes)
           hp == Level(highest_position_per_level, LevelStep)
       IN PlaceAt(node,
                  IF graph_direction = "LR" THEN <<LevelStep, hp>> ELSE <<hp, LevelStep>>,
                  LevelStep)
    /\ subgraph_root_nodes' = Tail(subgraph_root_nodes)
    /\ UNCHANGED notPlaceVars
    /\ UNCHANGED <<numNodes, edges, graph_direction, subgraphNodes, root_nodes,
                   external_root_nodes, cursor, pc>>

RootsPlaced ==
    /\ pc = "place_roots"
    /\ external_root_nodes = <<>>
    /\ subgraph_root_nodes = <<>>
    /\ pc' = "place_children"
    /\ cursor' = 1
    /\ UNCHANGED notPlaceVars
    /\ UNCHANGED <<numNodes, edges, graph_direction, subgraphNodes, grid, grid_coord,
                   highest_position_per_level, root_nodes, external_root_nodes,
                   subgraph_root_nodes>>

(***************************************************************************)
(* create_mapping, lines 425-445: the children of the node at `cursor`.    *)
(* st = <<grid, grid_coord, highest_position>>.                            *)
(***************************************************************************)
RECURSIVE PlaceChildList(_, _, _)
PlaceChildList(children, child_level, st) ==
    IF children = <<>> THEN st
    ELSE LET child == Head(children)
             g == st[1]
             gc == st[2]
             highest_position == st[3]
         IN IF gc[child] # None
            THEN PlaceChildList(Tail(children), child_level, st)
            ELSE LET requested == IF graph_direction = "LR"
                                  THEN <<child_level, highest_position>>
                                  ELSE <<highest_position, child_level>>
                     spot == FreeSpot(g, graph_direction, requested)
                 IN PlaceChildList(Tail(children), child_level,
                                   <<ReserveAt(g, child, spot),
                                     [gc EXCEPT ![child] = spot],
                                     NextPosition(highest_position)>>)

\* Lines 428-431 without the step to the next level.
ChildLevel_Same(gc) == IF graph_direction = "LR" THEN gc[1] ELSE gc[2]

\* Lines 428-431 with the width of a block as the step to the next level.
ChildLevel_Adjacent(gc) ==
    IF graph_direction = "LR" THEN gc[1] + BlockSize ELSE gc[2] + BlockSize

\* Lines 428-431: the level of the children of a node at gc.
ChildLevel(gc) ==
    IF graph_direction = "LR" THEN gc[1] + LevelStep ELSE gc[2] + LevelStep

PlaceChildren ==
    /\ pc = "place_children"
    /\ cursor <= numNodes
    /\ LET gc == grid_coord[cursor]
           child_level == ChildLevel(gc)
       IN IF gc = None \/ child_level >= LevelSlots
          THEN /\ pc' = "failed"
               /\ UNCHANGED <<grid, grid_coord, highest_position_per_level, cursor>>
          ELSE LET st == PlaceChildList(get_children(cursor), child_level,
                              <<grid, grid_coord,
                                Level(highest_position_per_level, child_level)>>)
               IN /\ grid' = st[1]
                  /\ grid_coord' = st[2]
                  /\ highest_position_per_level' =
                        IF st[3] = Level(highest_position_per_level, child_level)
                        THEN highest_position_per_level
                        ELSE SetLevel(highest_position_per_level, child_level, st[3])
                  /\ cursor' = cursor + 1
                  /\ pc' = IF cursor = numNodes THEN "placed" ELSE pc
    /\ UNCHANGED notPlaceVars
    /\ UNCHANGED <<numNodes, edges, graph_direction, subgraphNodes, root_nodes,
                   external_root_nodes, subgraph_root_nodes>>

(***************************************************************************)
(* The state of a part of the engine that a specification does not run.    *)
(***************************************************************************)
PlaceIdle ==
    /\ numNodes = 0
    /\ edges = <<>>
    /\ graph_direction = "TD"
    /\ subgraphNodes = {}
    /\ grid = EmptyGrid
    /\ grid_coord = <<>>
    /\ highest_position_per_level = [l \in {} |-> 0]
    /\ root_nodes = <<>>
    /\ external_root_nodes = <<>>
    /\ subgraph_root_nodes = <<>>
    /\ cursor = 0
    /\ pc = "idle"

JunctionIdle ==
    /\ c1 = " "
    /\ c2 = " "
    /\ junction = ""

CanvasIdle ==
    /\ base = <<>>
    /\ offset = <<0, 0>>
    /\ use_ascii = FALSE
    /\ overlays = <<>>
    /\ merged = None

PathIdle ==
    /\ from_coord = <<0, 0>>
    /\ to_coord = <<0, 0>>
    /\ pq = <<>>
    /\ cost_so_far = EmptyGrid
    /\ came_from = EmptyGrid
    /\ search = "idle"
    /\ path = <<>>

SimplifyIdle ==
    /\ raw_path = <<>>
    /\ merged_path = <<>>
    /\ remerged_path = <<>>
    /\ simplify_pc = "idle"

RenderIdle ==
    /\ subgraphs = <<>>
    /\ display_label = <<>>
    /\ bottom_to_top = FALSE
    /\ node_idx = 0
    /\ canvas = <<>>
    /\ layers = <<>>
    /\ edge_text_len = <<>>
    /\ padding_x = 0
    /\ padding_y = 0
    /\ box_border_padding = 0
    /\ column_width = EmptyGrid
    /\ row_height = EmptyGrid
    /\ edge_idx = 0
    /\ edge_path = <<>>
    /\ start_dir = <<>>
    /\ end_dir = <<>>
    /\ label_line = <<>>
    /\ drawing_coord = <<>>
    /\ drawing = <<>>
    /\ canvas_size = <<0, 0>>
    /\ sg_box = <<>>
    /\ offset_x = 0
    /\ offset_y = 0
    /\ written = <<>>
    /\ layers_size = <<0, 0>>
    /\ rpc = "idle"

GrowIdle ==
    /\ target_canvas = <<>>
    /\ requested_x = 0
    /\ requested_y = 0
    /\ grown_canvas = <<>>
    /\ grow_pc = "idle"

FlipIdle ==
    /\ flip_canvas = <<>>
    /\ flipped_once = <<>>
    /\ flipped_twice = <<>>
    /\ flip_pc = "idle"

HeapIdle ==
    /\ heap_items = <<>>
    /\ heap_returned = None
    /\ heap_op = "idle"

(***************************************************************************)
(* Placement specification: every graph of up to MaxNodes nodes and        *)
(* MaxEdges edges, in both directions, with any set of subgraph members.   *)
(***************************************************************************)
EdgeLists(n, k) == UNION {[1..m -> (1..n) \X (1..n)] : m \in 0..k}

InitPlace ==
    /\ numNodes \in 1..MaxNodes
    /\ edges \in EdgeLists(numNodes, MaxEdges)
    /\ graph_direction \in {"LR", "TD"}
    /\ subgraphNodes \in SUBSET (1..numNodes)
    /\ grid = EmptyGrid
    /\ grid_coord = [n \in 1..numNodes |-> None]
    /\ highest_position_per_level = [l \in {} |-> 0]
    /\ root_nodes = <<>>
    /\ external_root_nodes = <<>>
    /\ subgraph_root_nodes = <<>>
    /\ cursor = 0
    /\ pc = "find_roots"
    /\ JunctionIdle
    /\ CanvasIdle
    /\ PathIdle
    /\ SimplifyIdle
    /\ RenderIdle
    /\ GrowIdle
    /\ FlipIdle
    /\ HeapIdle

NextPlace ==
    \/ FindRoots
    \/ PlaceRoot
    \/ PlaceSubgraphRoot
    \/ RootsPlaced
    \/ PlaceChildren

SpecPlace == InitPlace /\ [][NextPlace]_vars

(***************************************************************************)
(* C1: once create_mapping has placed the nodes, every node owns all nine  *)
(* cells of its 3x3 block in the occupancy map, the blocks of two distinct *)
(* nodes are disjoint and no other cell is occupied; this holds for        *)
(* acyclic and cyclic graphs and for self-loops.                           *)
(***************************************************************************)
C1_BlocksDisjoint ==
    pc = "placed" =>
        /\ \A n \in Nodes :
              /\ grid_coord[n] # None
              /\ \A c \in Block(grid_coord[n]) : c \in DOMAIN grid /\ grid[c] = n
        /\ \A m, n \in Nodes :
              m # n => Block(grid_coord[m]) \cap Block(grid_coord[n]) = {}
        /\ DOMAIN grid = UNION {Block(grid_coord[n]) : n \in Nodes}

C1_Witness ==
    /\ pc = "placed"
    /\ numNodes = 3
    /\ edges = << <<1, 2>>, <<2, 1>> >>
    /\ Cardinality(DOMAIN grid) = 27

(***************************************************************************)
(* C2: the nodes create_mapping takes as roots are exactly the nodes that  *)
(* are the target of no edge.                                              *)
(***************************************************************************)
IsEdgeTarget(n) == \E i \in 1..Len(edges) : edges[i][2] = n

C2_RootsAreNonTargets ==
    pc # "find_roots" => SeqRange(root_nodes) = {n \in Nodes : ~IsEdgeTarget(n)}

(***************************************************************************)
(* canvas.py.  A canvas is column-major: canvas[x + 1][y + 1] is the cell  *)
(* at column x, row y.  Glyphs are named by their arms: H is the           *)
(* horizontal line, V the vertical line, DR/DL/UR/UL the four corners      *)
(* (down-and-right, ...), VR/VL/DH/UH the four T-pieces, VH the cross and  *)
(* L/U/R/D the four half-lines.                                            *)
(***************************************************************************)
JUNCTION_CHARS ==
    {"H", "V", "DR", "DL", "UR", "UL", "VR", "VL", "DH", "UH", "VH", "L", "U", "R", "D"}

is_junction_char(c) == c \in JUNCTION_CHARS

JUNCTION_MAP ==
    "H" :> ("V" :> "VH" @@ "DR" :> "DH" @@ "DL" :> "DH" @@ "UR" :> "UH" @@ "UL" :> "UH"
              @@ "VR" :> "VH" @@ "VL" :> "VH" @@ "DH" :> "DH" @@ "UH" :> "UH")
    @@
    "V" :> ("H" :> "VH" @@ "DR" :> "VR" @@ "DL" :> "VL" @@ "UR" :> "VR" @@ "UL" :> "VL"
              @@ "VR" :> "VR" @@ "VL" :> "VL" @@ "DH" :> "VH" @@ "UH" :> "VH")
    @@
    "DR" :> ("H" :> "DH" @@ "V" :> "VR" @@ "DL" :> "DH" @@ "UR" :> "VR" @@ "UL" :> "VH"
              @@ "VR" :> "VR" @@ "VL" :> "VH" @@ "DH" :> "DH" @@ "UH" :> "VH")
    @@
    "DL" :> ("H" :> "DH" @@ "V" :> "VL" @@ "DR" :> "DH" @@ "UR" :> "VH" @@ "UL" :> "VL"
              @@ "VR" :> "VH" @@ "VL" :> "VL" @@ "DH" :> "DH" @@ "UH" :> "VH")
    @@
    "UR" :> ("H" :> "UH" @@ "V" :> "VR" @@ "DR" :> "VR" @@ "DL" :> "VH" @@ "UL" :> "UH"
              @@ "VR" :> "VR" @@ "VL" :> "VH" @@ "DH" :> "VH" @@ "UH" :> "UH")
    @@
    "UL" :> ("H" :> "UH" @@ "V" :> "VL" @@ "DR" :> "VH" @@ "DL" :> "VL" @@ "UR" :> "UH"
              @@ "VR" :> "VH" @@ "VL" :> "VL" @@ "DH" :> "VH" @@ "UH" :> "UH")
    @@
    "VR" :> ("H" :> "VH" @@ "V" :> "VR" @@ "DR" :> "VR" @@ "DL" :> "VH" @@ "UR" :> "VR"
              @@ "UL" :> "VH" @@ "VL" :> "VH" @@ "DH" :> "VH" @@ "UH" :> "VH")
    @@
    "VL" :> ("H" :> "VH" @@ "V" :> "VL" @@ "DR" :> "VH" @@ "DL" :> "VL" @@ "UR" :> "VH"
              @@ "UL" :> "VL" @@ "VR" :> "VH" @@ "DH" :> "VH" @@ "UH" :> "VH")
    @@
    "DH" :> ("H" :> "DH" @@ "V" :> "VH" @@ "DR" :> "DH" @@ "DL" :> "DH" @@ "UR" :> "VH"
              @@ "UL" :> "VH" @@ "VR" :> "VH" @@ "VL" :> "VH" @@ "UH" :> "VH")
    @@
    "UH" :> ("H" :> "UH" @@ "V" :> "VH" @@ "DR" :> "VH" @@ "DL" :> "VH" @@ "UR" :> "UH"
              @@ "UL" :> "UH" @@ "VR" :> "VH" @@ "VL" :> "VH" @@ "DH" :> "VH")

\* merge_junctions as when no row of the table is found: line 96 alone.
merge_junctions_NoTable(a, b) == a

merge_junctions(a, b) ==
    IF a \in DOMAIN JUNCTION_MAP /\ b \in DOMAIN JUNCTION_MAP[a] THEN JUNCTION_MAP[a][b]
    ELSE a

\* The sequence s, its elements computed once.
Eager(s) == SubSeq(s, 1, Len(s))

mk_canvas(x, y) == Eager([i \in 1..(x + 1) |-> Eager([j \in 1..(y + 1) |-> " "])])

get_canvas_size(cv) ==
    <<Len(cv) - 1, (IF Len(cv) > 0 THEN Len(cv[1]) ELSE 1) - 1>>

Max(a, b) == IF a >= b THEN a ELSE b
Min(a, b) == IF a <= b THEN a ELSE b

\* merge_canvases, lines 116-120: the size of the result.
RECURSIVE MergedSize(_, _, _)
MergedSize(size, off, ovs) ==
    IF ovs = <<>> THEN size
    ELSE LET o == get_canvas_size(Head(ovs))
         IN MergedSize(<<Max(size[1], o[1] + off[1]), Max(size[2], o[2] + off[2])>>,
                       off, Tail(ovs))

\* merge_canvases, lines 122-128: the base copied onto a blank canvas.
CopyBase(b, size) ==
    Eager([i \in 1..(size[1] + 1) |->
              Eager([j \in 1..(size[2] + 1) |->
                        IF i <= Len(b) /\ j <= Len(b[1]) THEN b[i][j] ELSE " "])])

\* merge_canvases, lines 132-142: one overlay applied.
ApplyOverlay(m, overlay, off, ascii) ==
    Eager([i \in 1..Len(m) |->
        Eager([j \in 1..Len(m[i]) |->
            LET x == i - off[1]
                y == j - off[2]
            IN IF x \in 1..Len(overlay) /\ y \in 1..Len(overlay[1]) /\ overlay[x][y] # " "
               THEN IF ~ascii /\ is_junction_char(overlay[x][y]) /\ is_junction_char(m[i][j])
                    THEN merge_junctions(m[i][j], overlay[x][y])
                    ELSE overlay[x][y]
               ELSE m[i][j]])])

RECURSIVE ApplyOverlays(_, _, _, _)
ApplyOverlays(m, ovs, off, ascii) ==
    IF ovs = <<>> THEN m
    ELSE ApplyOverlays(ApplyOverlay(m, Head(ovs), off, ascii), Tail(ovs), off, ascii)

merge_canvases(b, off, ascii, ovs) ==
    ApplyOverlays(CopyBase(b, MergedSize(get_canvas_size(b), off, ovs)), ovs, off, ascii)

(***************************************************************************)
(* merge_junctions applied to every pair of junction glyphs.               *)
(***************************************************************************)
MergeJunctions ==
    /\ junction = ""
    /\ junction' = merge_junctions(c1, c2)
    /\ UNCHANGED <<c1, c2>>
    /\ UNCHANGED notJunctionVars

InitJunction ==
    /\ c1 \in JUNCTION_CHARS
    /\ c2 \in JUNCTION_CHARS
    /\ junction = ""
    /\ PlaceIdle
    /\ CanvasIdle
    /\ PathIdle
    /\ SimplifyIdle
    /\ RenderIdle
    /\ GrowIdle
    /\ FlipIdle
    /\ HeapIdle

NextJunction == MergeJunctions

SpecJunction == InitJunction /\ [][NextJunction]_vars

(***************************************************************************)
(* C8: for every pair (a, b) of junction glyphs merge_junctions(a, b) is a *)
(* junction glyph and equals merge_junctions(b, a).                        *)
(***************************************************************************)
C8_MergeTotalSymmetric ==
    junction # "" =>
        /\ is_junction_char(junction)
        /\ junction = merge_junctions(c2, c1)

(***************************************************************************)
(* merge_canvases applied to a base and up to MaxOverlays overlays, all    *)
(* one row high and up to MaxCanvasX + 1 columns wide, holding spaces, the *)
(* horizontal line, the cross and a letter.                                *)
(***************************************************************************)
MergeGlyphs == {" ", "H", "VH", "a"}

RowCanvases == UNION {[1..(w + 1) -> [1..1 -> MergeGlyphs]] : w \in 0..MaxCanvasX}

MergeCanvases ==
    /\ merged = None
    /\ base # <<>>
    /\ merged' = merge_canvases(base, offset, use_ascii, overlays)
    /\ UNCHANGED <<base, offset, use_ascii, overlays>>
    /\ UNCHANGED notCanvasVars

InitMerge ==
    /\ base \in RowCanvases
    /\ offset \in {<<0, 0>>, <<1, 0>>}
    /\ use_ascii \in BOOLEAN
    /\ overlays \in UNION {[1..n -> RowCanvases] : n \in 1..MaxOverlays}
    /\ merged = None
    /\ PlaceIdle
    /\ JunctionIdle
    /\ PathIdle
    /\ SimplifyIdle
    /\ RenderIdle
    /\ GrowIdle
    /\ FlipIdle
    /\ HeapIdle

NextMerge == MergeCanvases

SpecMerge == InitMerge /\ [][NextMerge]_vars

(***************************************************************************)
(* C9: when no cell receives a non-space, non-junction character from two  *)
(* of the layers (base and overlays), merge_canvases returns the same      *)
(* canvas for every ordering of the overlays.                              *)
(***************************************************************************)
Perms(n) == {p \in [1..n -> 1..n] : \A i, j \in 1..n : p[i] = p[j] => i = j}

Permuted(ovs, p) == [i \in 1..Len(ovs) |-> ovs[p[i]]]

\* The character layer k (0 is the base) places on cell <<i, j>> of the result.
LayerChar(k, i, j) ==
    LET cv == IF k = 0 THEN base ELSE overlays[k]
        x == IF k = 0 THEN i ELSE i - offset[1]
        y == IF k = 0 THEN j ELSE j - offset[2]
    IN IF x \in 1..Len(cv) /\ y \in 1..Len(cv[1]) THEN cv[x][y] ELSE " "

IsText(c) == c # " " /\ ~is_junction_char(c)

NoTextOverlap ==
    \A k1, k2 \in 0..Len(overlays) :
        k1 # k2 =>
            \A i \in 1..Len(merged) : \A j \in 1..Len(merged[i]) :
                ~(IsText(LayerChar(k1, i, j)) /\ IsText(LayerChar(k2, i, j)))

C9_MergeOrderIndependent ==
    (merged # None /\ NoTextOverlap) =>
        \A p \in Perms(Len(overlays)) :
            merge_canvases(base, offset, use_ascii, Permuted(overlays, p)) = merged

(***************************************************************************)
(* pathfinder.py: MinHeap.  _items is a sequence of <<coord, priority>>;   *)
(* index i here is index i - 1 of the list.                                *)
(***************************************************************************)
Swap(items, i, j) == [items EXCEPT ![i] = items[j], ![j] = items[i]]

RECURSIVE bubble_up(_, _)
bubble_up(items, i) ==
    IF i > 1 /\ items[i][2] < items[i \div 2][2]
    THEN bubble_up(Swap(items, i, i \div 2), i \div 2)
    ELSE items

\* _sink_down without the comparison with the right child (lines 80-81).
RECURSIVE sink_down_LeftOnly(_, _)
sink_down_LeftOnly(items, i) ==
    LET n == Len(items)
        left == 2 * i
        smallest == IF left <= n /\ items[left][2] < items[i][2] THEN left ELSE i
    IN IF smallest # i THEN sink_down_LeftOnly(Swap(items, i, smallest), smallest)
       ELSE items

RECURSIVE sink_down(_, _)
sink_down(items, i) ==
    LET n == Len(items)
        left == 2 * i
        right == 2 * i + 1
        s1 == IF left <= n /\ items[left][2] < items[i][2] THEN left ELSE i
        smallest == IF right <= n /\ items[right][2] < items[s1][2] THEN right ELSE s1
    IN IF smallest # i THEN sink_down(Swap(items, i, smallest), smallest) ELSE items

push_Unordered(items, item) == Append(items, item)

push(items, item) == bubble_up(Append(items, item), Len(items) + 1)

\* pop without the call of _sink_down on line 59.
pop_NoSink(items) ==
    LET rest == SubSeq(items, 1, Len(items) - 1)
    IN IF rest = <<>> THEN rest ELSE [rest EXCEPT ![1] = items[Len(items)]]

\* The heap after pop(); the popped item is items[1].
pop(items) ==
    LET rest == SubSeq(items, 1, Len(items) - 1)
    IN IF rest = <<>> THEN rest
       ELSE sink_down([rest EXCEPT ![1] = items[Len(items)]], 1)

(***************************************************************************)
(* pathfinder.py: heuristic, _is_free_in_grid, get_path.                   *)
(***************************************************************************)
Abs(n) == IF n < 0 THEN -n ELSE n

heuristic(a, b) ==
    LET abs_x == Abs(a[1] - b[1])
        abs_y == Abs(a[2] - b[2])
    IN IF abs_x = 0 \/ abs_y = 0 THEN abs_x + abs_y ELSE abs_x + abs_y + CornerPenalty

MOVE_DIRS == << <<1, 0>>, <<-1, 0>>, <<0, 1>>, <<0, -1>> >>

\* _is_free_in_grid without the lookup in the occupancy map.
is_free_in_grid_Any(g, c) ==
    IF c[1] < 0 \/ c[2] < 0 THEN FALSE ELSE TRUE

is_free_in_grid(g, c) ==
    IF c[1] < 0 \/ c[2] < 0 THEN FALSE ELSE c \notin DOMAIN g

\* The part of the unbounded grid the model follows the search in.  Every
\* occupied cell lies inside it (blocks start at coordinates up to MaxCoord,
\* or at the lattice positions create_mapping gives the nodes), so a search that
\* expands a cell outside it has reached the unbounded free region.
PathWindow ==
    LET furthest == LevelStep * (Max(MaxRenderNodes, MaxBoxNodes) - 1)
    IN (IF furthest > MaxCoord THEN furthest ELSE MaxCoord) + (BlockSize - 1) + WindowMargin

InWindow(c) == c[1] <= PathWindow /\ c[2] <= PathWindow

SetCell(f, c, v) == [k \in DOMAIN f \cup {c} |-> IF k = c THEN v ELSE f[k]]

\* get_path, lines 148-154: the predecessor chain from the goal, reversed.
RECURSIVE Reconstruct(_, _, _)
Reconstruct(from, c, acc) ==
    IF c = None THEN acc ELSE Reconstruct(from, from[c], <<c>> \o acc)

\* get_path, lines 158-176: the moves out of `current`, from the d-th on.
\* s = [pq, cost, from].
RECURSIVE Relax(_, _, _, _, _, _)
Relax(s, g, goal, current, current_cost, d) ==
    IF d > Len(MOVE_DIRS) THEN s
    ELSE LET next_coord == <<current[1] + MOVE_DIRS[d][1], current[2] + MOVE_DIRS[d][2]>>
             new_cost == current_cost + 1
         IN IF ~is_free_in_grid(g, next_coord) /\ next_coord # goal
            THEN Relax(s, g, goal, current, current_cost, d + 1)
            ELSE IF next_coord \notin DOMAIN s.cost \/ new_cost < s.cost[next_coord]
            THEN Relax([pq |-> push(s.pq, <<next_coord,
                                              new_cost + heuristic(next_coord, goal)>>),
                        cost |-> SetCell(s.cost, next_coord, new_cost),
                        from |-> SetCell(s.from, next_coord, current)],
                       g, goal, current, current_cost, d + 1)
            ELSE Relax(s, g, goal, current, current_cost, d + 1)

\* One iteration of the while loop of get_path (lines 142-176), or its exit.
\* s = [pq, cost, from, search, path].
Iterate(s, g, goal) ==
    IF s.pq = <<>>
    THEN [s EXCEPT !.search = "none"]
    ELSE LET current == s.pq[1][1]
             popped == pop(s.pq)
         IN IF current = goal
            THEN [s EXCEPT !.pq = popped, !.search = "found",
                           !.path = Reconstruct(s.from, current, <<>>)]
            ELSE IF ~InWindow(current)
            THEN [s EXCEPT !.pq = popped, !.search = "escaped"]
            ELSE LET r == Relax([pq |-> popped, cost |-> s.cost, from |-> s.from],
                                g, goal, current, s.cost[current], 1)
                 IN [s EXCEPT !.pq = r.pq, !.cost = r.cost, !.from = r.from]

StartSearch(a) ==
    [pq |-> << <<a, 0>> >>,
     cost |-> SetCell(EmptyGrid, a, 0),
     from |-> SetCell(EmptyGrid, a, None),
     search |-> "searching",
     path |-> <<>>]

RECURSIVE RunSearch(_, _, _)
RunSearch(s, g, goal) ==
    IF s.search # "searching" THEN s ELSE RunSearch(Iterate(s, g, goal), g, goal)

\* The search's outcome: search is "found" (with path), "none" or "escaped".
get_path(g, a, b) == RunSearch(StartSearch(a), g, b)

SearchState ==
    [pq |-> pq, cost |-> cost_so_far, from |-> came_from, search |-> search, path |-> path]

AStarStep ==
    /\ search = "searching"
    /\ pq # <<>>
    /\ LET s == Iterate(SearchState, grid, to_coord)
       IN /\ pq' = s.pq
          /\ cost_so_far' = s.cost
          /\ came_from' = s.from
          /\ search' = s.search
          /\ path' = s.path
    /\ UNCHANGED <<from_coord, to_coord>>
    /\ UNCHANGED notPathVars

ReturnNone ==
    /\ search = "searching"
    /\ pq = <<>>
    /\ search' = "none"
    /\ UNCHANGED <<from_coord, to_coord, pq, cost_so_far, came_from, path>>
    /\ UNCHANGED notPathVars

(***************************************************************************)
(* get_path on grids of node blocks at the first lattice positions, from   *)
(* and to every cell with coordinates up to MaxCoord.                      *)
(***************************************************************************)
Origins == {<<0, 0>>, <<LevelStep, 0>>, <<0, LevelStep>>, <<LevelStep, LevelStep>>}

RECURSIVE BlocksGrid(_)
BlocksGrid(origins) ==
    IF origins = {} THEN EmptyGrid
    ELSE LET o == CHOOSE c \in origins : TRUE
         IN ReserveAt(BlocksGrid(origins \ {o}), 1, o)

InitPath ==
    /\ \E origins \in SUBSET Origins : grid = BlocksGrid(origins)
    /\ from_coord \in (0..MaxCoord) \X (0..MaxCoord)
    /\ to_coord \in (0..MaxCoord) \X (0..MaxCoord)
    /\ pq = StartSearch(from_coord).pq
    /\ cost_so_far = StartSearch(from_coord).cost
    /\ came_from = StartSearch(from_coord).from
    /\ search = "searching"
    /\ path = <<>>
    /\ numNodes = 0
    /\ edges = <<>>
    /\ graph_direction = "TD"
    /\ subgraphNodes = {}
    /\ grid_coord = <<>>
    /\ highest_position_per_level = [l \in {} |-> 0]
    /\ root_nodes = <<>>
    /\ external_root_nodes = <<>>
    /\ subgraph_root_nodes = <<>>
    /\ cursor = 0
    /\ pc = "idle"
    /\ JunctionIdle
    /\ CanvasIdle
    /\ SimplifyIdle
    /\ RenderIdle
    /\ GrowIdle
    /\ FlipIdle
    /\ HeapIdle

NextPath ==
    \/ AStarStep
    \/ ReturnNone

SpecPath == InitPath /\ [][NextPath]_vars

(***************************************************************************)
(* C3: get_path returns on every input; when the goal cannot be reached    *)
(* (the start is neither the goal nor next to it, and all four neighbours  *)
(* of the goal are occupied or have a negative coordinate) the open set    *)
(* empties and None is returned.  A search that is "escaped" has expanded  *)
(* a cell beyond every occupied cell, where the grid is free without end,  *)
(* and its open set can no longer empty.                                   *)
(***************************************************************************)
Neighbours(c) == {<<c[1] + MOVE_DIRS[d][1], c[2] + MOVE_DIRS[d][2]>> : d \in 1..Len(MOVE_DIRS)}

GoalEnclosed ==
    /\ from_coord # to_coord
    /\ from_coord \notin Neighbours(to_coord)
    /\ \A n \in Neighbours(to_coord) : ~is_free_in_grid(grid, n)

C3_UnreachableGoalReturnsNone ==
    (GoalEnclosed /\ search \notin {"idle", "searching"}) => search = "none"

(***************************************************************************)
(* C4: on a grid with no occupied cell, between two distinct cells with    *)
(* non-negative coordinates, get_path returns a path from the start to the *)
(* goal, made of unit steps, whose number of steps is the Manhattan        *)
(* distance plus at most the corner penalty of the heuristic.              *)
(***************************************************************************)
Manhattan(a, b) == Abs(a[1] - b[1]) + Abs(a[2] - b[2])

UnitSteps(p) == \A i \in 1..(Len(p) - 1) : Manhattan(p[i], p[i + 1]) = 1

C4_EmptyGridPath ==
    (DOMAIN grid = {} /\ from_coord # to_coord /\ search \notin {"idle", "searching"}) =>
        /\ search = "found"
        /\ path[1] = from_coord
        /\ path[Len(path)] = to_coord
        /\ UnitSteps(path)
        /\ Len(path) - 1 >= Manhattan(from_coord, to_coord)
        /\ Len(path) - 1 <= Manhattan(from_coord, to_coord) + CornerPenalty

C4_Witness ==
    /\ DOMAIN grid = {}
    /\ from_coord = <<0, 3>>
    /\ to_coord = <<2, 0>>
    /\ search = "found"
    /\ Len(path) = 6

(***************************************************************************)
(* pathfinder.py: merge_path.  The loop slides (step0, step1, step2) over  *)
(* the path: at idx (1-based here) the three are path[idx - 2],            *)
(* path[idx - 1] and path[idx], and idx - 1 is removed when the two steps  *)
(* are the same vector.                                                    *)
(***************************************************************************)
SameStep_Either(p, idx) ==
    \/ p[idx - 1][1] - p[idx - 2][1] = p[idx][1] - p[idx - 1][1]
    \/ p[idx - 1][2] - p[idx - 2][2] = p[idx][2] - p[idx - 1][2]

SameStep(p, idx) ==
    /\ p[idx - 1][1] - p[idx - 2][1] = p[idx][1] - p[idx - 1][1]
    /\ p[idx - 1][2] - p[idx - 2][2] = p[idx][2] - p[idx - 1][2]

RECURSIVE KeepIndexes(_, _, _)
KeepIndexes(p, to_remove, i) ==
    IF i > Len(p) THEN <<>>
    ELSE (IF i \in to_remove THEN <<>> ELSE <<p[i]>>) \o KeepIndexes(p, to_remove, i + 1)

\* merge_path removing idx instead of idx - 1 on line 208.
merge_path_RemoveLater(p) ==
    IF Len(p) <= 2 THEN p
    ELSE LET to_remove == {idx \in 3..Len(p) : SameStep(p, idx)}
         IN KeepIndexes(p, to_remove, 1)

merge_path(p) ==
    IF Len(p) <= 2 THEN p
    ELSE LET to_remove == {idx - 1 : idx \in {i \in 3..Len(p) : SameStep(p, i)}}
         IN KeepIndexes(p, to_remove, 1)

PathCells == (0..MaxCoord) \X {0, 1}

MergePath ==
    /\ simplify_pc = "start"
    /\ merged_path' = merge_path(raw_path)
    /\ simplify_pc' = "once"
    /\ UNCHANGED <<raw_path, remerged_path>>
    /\ UNCHANGED notSimplifyVars

MergeAgain ==
    /\ simplify_pc = "once"
    /\ remerged_path' = merge_path(merged_path)
    /\ simplify_pc' = "twice"
    /\ UNCHANGED <<raw_path, merged_path>>
    /\ UNCHANGED notSimplifyVars

InitSimplify ==
    /\ raw_path \in UNION {[1..n -> PathCells] : n \in 0..MaxPathLen}
    /\ merged_path = <<>>
    /\ remerged_path = <<>>
    /\ simplify_pc = "start"
    /\ PlaceIdle
    /\ JunctionIdle
    /\ CanvasIdle
    /\ PathIdle
    /\ RenderIdle
    /\ GrowIdle
    /\ FlipIdle
    /\ HeapIdle

NextSimplify ==
    \/ MergePath
    \/ MergeAgain

SpecSimplify == InitSimplify /\ [][NextSimplify]_vars

(***************************************************************************)
(* C10: merge_path is idempotent on every sequence of grid coordinates:    *)
(* merging the merged path again returns the merged path.                  *)
(***************************************************************************)
C10_MergeIdempotent ==
    simplify_pc = "twice" => remerged_path = merged_path

(***************************************************************************)
(* C10, amended: merge_path is idempotent on every path whose consecutive  *)
(* cells are one step apart in one of the four directions, which is what   *)
(* get_path returns.                                                       *)
(***************************************************************************)
C10_MergeIdempotentOnUnitSteps ==
    (simplify_pc = "twice" /\ UnitSteps(raw_path)) => remerged_path = merged_path

C10_Witness ==
    /\ simplify_pc = "twice"
    /\ raw_path = <<<<0, 0>>, <<1, 0>>, <<2, 0>>, <<2, 1>>>>
    /\ merged_path = <<<<0, 0>>, <<2, 0>>, <<2, 1>>>>
    /\ remerged_path = merged_path

(***************************************************************************)
(* types.py: the Direction constants, offsets into a node's 3x3 block.     *)
(***************************************************************************)
Up == <<1, 0>>
Down == <<1, 2>>
Left == <<0, 1>>
Right == <<2, 1>>
UpperRight == <<2, 0>>
UpperLeft == <<0, 0>>
LowerRight == <<2, 2>>
LowerLeft == <<0, 2>>
Middle == <<1, 1>>

grid_coord_direction(c, d) == <<c[1] + d[1], c[2] + d[2]>>

(***************************************************************************)
(* edge_routing.py: direction utilities and determine_start_and_end_dir.   *)
(***************************************************************************)
get_opposite(d) ==
    CASE d = Up -> Down
      [] d = Down -> Up
      [] d = Left -> Right
      [] d = Right -> Left
      [] d = UpperRight -> LowerLeft
      [] d = UpperLeft -> LowerRight
      [] d = LowerRight -> UpperLeft
      [] d = LowerLeft -> UpperRight
      [] OTHER -> Middle

determine_direction(a, b) ==
    IF a[1] = b[1] THEN (IF a[2] < b[2] THEN Down ELSE Up)
    ELSE IF a[2] = b[2] THEN (IF a[1] < b[1] THEN Right ELSE Left)
    ELSE IF a[1] < b[1] THEN (IF a[2] < b[2] THEN LowerRight ELSE UpperRight)
    ELSE (IF a[2] < b[2] THEN LowerLeft ELSE UpperLeft)

\* _self_reference_direction leaving by the top and entering from the left.
self_reference_direction_UpLeft == <<Up, Left, Left, Up>>

self_reference_direction ==
    IF graph_direction = "LR" THEN <<Right, Down, Down, Right>>
    ELSE <<Down, Right, Right, Down>>

\* <<preferred_dir, preferred_opposite_dir, alternative_dir, alternative_opposite_dir>>
determine_start_and_end_dir(from_node, to_node) ==
    IF from_node = to_node THEN self_reference_direction
    ELSE LET d == determine_direction(grid_coord[from_node], grid_coord[to_node])
             lr == graph_direction = "LR"
             is_backwards == IF lr THEN d \in {Left, UpperLeft, LowerLeft}
                             ELSE d \in {Up, UpperLeft, UpperRight}
         IN CASE d = LowerRight ->
                    IF lr THEN <<Down, Left, Right, Up>> ELSE <<Right, Up, Down, Left>>
              [] d = UpperRight ->
                    IF lr THEN <<Up, Left, Right, Down>> ELSE <<Right, Down, Up, Left>>
              [] d = LowerLeft ->
                    IF lr THEN <<Down, Down, Left, Up>> ELSE <<Left, Up, Down, Right>>
              [] d = UpperLeft ->
                    IF lr THEN <<Down, Down, Left, Down>> ELSE <<Right, Right, Up, Right>>
              [] OTHER ->
                    IF is_backwards /\ lr /\ d = Left THEN <<Down, Down, Left, Right>>
                    ELSE IF is_backwards /\ ~lr /\ d = Up THEN <<Right, Right, Up, Down>>
                    ELSE <<d, get_opposite(d), d, get_opposite(d)>>

(***************************************************************************)
(* edge_routing.py: determine_path.  `returned` is FALSE when a get_path   *)
(* call of the function does not return.                                   *)
(***************************************************************************)
Route(sd, ed, p) == [start_dir |-> sd, end_dir |-> ed, path |-> p, returned |-> TRUE]

NoRoute == [start_dir |-> UpperLeft, end_dir |-> UpperLeft, path |-> <<>>, returned |-> FALSE]

PreferredSearch(from_node, to_node) ==
    LET dirs == determine_start_and_end_dir(from_node, to_node)
    IN get_path(grid, grid_coord_direction(grid_coord[from_node], dirs[1]),
                grid_coord_direction(grid_coord[to_node], dirs[2]))

AlternativeSearch(from_node, to_node) ==
    LET dirs == determine_start_and_end_dir(from_node, to_node)
    IN get_path(grid, grid_coord_direction(grid_coord[from_node], dirs[3]),
                grid_coord_direction(grid_coord[to_node], dirs[4]))

\* determine_path with < in place of <= on line 245.
determine_path_TiesToAlternative(from_node, to_node) ==
    LET dirs == determine_start_and_end_dir(from_node, to_node)
        preferred == PreferredSearch(from_node, to_node)
    IN IF preferred.search = "escaped" THEN NoRoute
       ELSE IF preferred.search = "none" THEN Route(dirs[3], dirs[4], <<>>)
       ELSE LET preferred_path == merge_path(preferred.path)
                alternative == AlternativeSearch(from_node, to_node)
            IN IF alternative.search = "escaped" THEN NoRoute
               ELSE IF alternative.search = "none"
               THEN Route(dirs[1], dirs[2], preferred_path)
               ELSE LET alternative_path == merge_path(alternative.path)
                    IN IF Len(preferred_path) < Len(alternative_path)
                       THEN Route(dirs[1], dirs[2], preferred_path)
                       ELSE Route(dirs[3], dirs[4], alternative_path)

determine_path(from_node, to_node) ==
    LET dirs == determine_start_and_end_dir(from_node, to_node)
        preferred == PreferredSearch(from_node, to_node)
    IN IF preferred.search = "escaped" THEN NoRoute
       ELSE IF preferred.search = "none" THEN Route(dirs[3], dirs[4], <<>>)
       ELSE LET preferred_path == merge_path(preferred.path)
                alternative == AlternativeSearch(from_node, to_node)
            IN IF alternative.search = "escaped" THEN NoRoute
               ELSE IF alternative.search = "none"
               THEN Route(dirs[1], dirs[2], preferred_path)
               ELSE LET alternative_path == merge_path(alternative.path)
                    IN IF Len(preferred_path) <= Len(alternative_path)
                       THEN Route(dirs[1], dirs[2], preferred_path)
                       ELSE Route(dirs[3], dirs[4], alternative_path)

(***************************************************************************)
(* grid.py: column widths and row heights.  A dict is a function; Get is   *)
(* dict.get(k, 0).                                                         *)
(***************************************************************************)

Get(d, k) == IF k \in DOMAIN d THEN d[k] ELSE 0

\* d[k] = v in place of d[k] = max(d.get(k, 0), v).
SetMax_Overwrite(d, k, v) == SetCell(d, k, v)

\* d[k] = max(d.get(k, 0), v)
SetMax(d, k, v) == SetCell(d, k, Max(Get(d, k), v))

RECURSIVE SumRange(_, _, _)
SumRange(d, lo, hi) == IF lo > hi THEN 0 ELSE Get(d, lo) + SumRange(d, lo + 1, hi)

RECURSIVE SumOver(_, _)
SumOver(d, keys) ==
    IF keys = {} THEN 0
    ELSE LET k == CHOOSE x \in keys : TRUE IN d[k] + SumOver(d, keys \ {k})

\* The first subgraph of the list that holds the node, 0 for None.
get_node_subgraph(node) ==
    LET holders == {i \in 1..Len(subgraphs) : node \in subgraphs[i].nodes}
    IN IF holders = {} THEN 0 ELSE CHOOSE i \in holders : \A j \in holders : i <= j

has_external_incoming(node, node_sg) ==
    \E i \in 1..Len(edges) :
        edges[i][2] = node /\ get_node_subgraph(edges[i][1]) # node_sg

has_incoming_edge_from_outside_subgraph(node) ==
    LET node_sg == get_node_subgraph(node)
    IN /\ node_sg # 0
       /\ has_external_incoming(node, node_sg)
       /\ ~\E other \in subgraphs[node_sg].nodes \ {node} :
              /\ grid_coord[other] # None
              /\ has_external_incoming(other, node_sg)
              /\ grid_coord[other][2] < grid_coord[node][2]

\* sizes = <<column_width, row_height>>
set_column_width(sizes, node) ==
    LET gc == grid_coord[node]
        col_widths == <<1, 2 * box_border_padding + Len(display_label[node]), 1>>
        row_heights == <<1, 1 + 2 * box_border_padding, 1>>
        cw3 == SetMax(SetMax(SetMax(sizes[1], gc[1], col_widths[1]),
                             gc[1] + 1, col_widths[2]),
                      gc[1] + 2, col_widths[3])
        rh3 == SetMax(SetMax(SetMax(sizes[2], gc[2], row_heights[1]),
                             gc[2] + 1, row_heights[2]),
                      gc[2] + 2, row_heights[3])
        base_padding == IF has_incoming_edge_from_outside_subgraph(node)
                        THEN padding_y + SubgraphOverhead ELSE padding_y
    IN <<IF gc[1] > 0 THEN SetMax(cw3, gc[1] - 1, padding_x) ELSE cw3,
         IF gc[2] > 0 THEN SetMax(rh3, gc[2] - 1, base_padding) ELSE rh3>>

RECURSIVE increase_grid_size_for_path(_, _)
increase_grid_size_for_path(sizes, p) ==
    IF p = <<>> THEN sizes
    ELSE LET c == Head(p)
             cw == IF c[1] \in DOMAIN sizes[1] THEN sizes[1]
                   ELSE SetCell(sizes[1], c[1], padding_x \div 2)
             rh == IF c[2] \in DOMAIN sizes[2] THEN sizes[2]
                   ELSE SetCell(sizes[2], c[2], padding_y \div 2)
         IN increase_grid_size_for_path(<<cw, rh>>, Tail(p))

grid_to_drawing_coord(c) ==
    <<SumRange(column_width, 0, c[1] - 1) + Get(column_width, c[1]) \div 2 + offset_x,
      SumRange(row_height, 0, c[2] - 1) + Get(row_height, c[2]) \div 2 + offset_y>>

(***************************************************************************)
(* edge_routing.py: determine_label_line.                                  *)
(***************************************************************************)
calculate_line_width(cw, line) ==
    SumRange(cw, Min(line[1][1], line[2][1]), Max(line[1][1], line[2][1]))

\* The loop of lines 270-283 with >= in place of > on line 279.
RECURSIVE LargestLine_Latest(_, _, _, _, _, _)
LargestLine_Latest(cw, p, len_label, i, largest_line, largest_line_size) ==
    IF i > Len(p) THEN largest_line
    ELSE LET line == <<p[i - 1], p[i]>>
             line_width == calculate_line_width(cw, line)
         IN IF line_width >= len_label THEN line
            ELSE IF line_width >= largest_line_size
            THEN LargestLine_Latest(cw, p, len_label, i + 1, line, line_width)
            ELSE LargestLine_Latest(cw, p, len_label, i + 1, largest_line, largest_line_size)

\* The loop of lines 270-283 from step i (path[i] here is edge.path[i - 1]).
RECURSIVE LargestLine(_, _, _, _, _, _)
LargestLine(cw, p, len_label, i, largest_line, largest_line_size) ==
    IF i > Len(p) THEN largest_line
    ELSE LET line == <<p[i - 1], p[i]>>
             line_width == calculate_line_width(cw, line)
         IN IF line_width >= len_label THEN line
            ELSE IF line_width > largest_line_size
            THEN LargestLine(cw, p, len_label, i + 1, line, line_width)
            ELSE LargestLine(cw, p, len_label, i + 1, largest_line, largest_line_size)

MiddleX(line) ==
    LET min_x == Min(line[1][1], line[2][1])
        max_x == Max(line[1][1], line[2][1])
    IN min_x + (max_x - min_x) \div 2

MiddleY(line) ==
    LET min_y == Min(line[1][2], line[2][2])
        max_y == Max(line[1][2], line[2][2])
    IN min_y + (max_y - min_y) \div 2

(***************************************************************************)
(* Glyphs.  An ASCII character stands for itself.  The box-drawing glyphs  *)
(* have the names of JUNCTION_CHARS; the arrowheads are AU, AD, AL, AR     *)
(* (up, down, left, right), AUR, AUL, ADR, ADL (the corner triangles) and  *)
(* DOT; BS and FS are the diagonal lines.                                  *)
(***************************************************************************)
UNICODE_GLYPHS ==
    JUNCTION_CHARS \cup {"AU", "AD", "AL", "AR", "AUR", "AUL", "ADR", "ADL", "DOT", "BS", "FS"}

\* increase_size without the max of lines 46-47: the canvas is cut or grown
\* to the requested bounds.
increase_size_Exact(cv, x, y) ==
    Eager([i \in 1..(x + 1) |->
              Eager([j \in 1..(y + 1) |->
                        IF i <= Len(cv) /\ j <= Len(cv[1]) THEN cv[i][j] ELSE " "])])

\* canvas.py: increase_size.
increase_size(cv, new_x, new_y) ==
    LET curr == get_canvas_size(cv)
        grown == mk_canvas(Max(new_x, curr[1]), Max(new_y, curr[2]))
    IN Eager([i \in 1..Len(grown) |->
                 Eager([j \in 1..Len(grown[1]) |->
                           IF i <= Len(cv) /\ j <= Len(cv[1]) THEN cv[i][j]
                           ELSE grown[i][j]])])

\* _VERTICAL_FLIP_MAP with each pair entered in one direction only.
VERTICAL_FLIP_MAP_OneWay ==
    "AU" :> "AD" @@ "AUL" :> "ADL" @@ "AUR" :> "ADR" @@ "^" :> "v"
    @@ "DR" :> "UR" @@ "DL" :> "UL" @@ "DH" :> "UH" @@ "U" :> "D"

\* canvas.py: _VERTICAL_FLIP_MAP.
VERTICAL_FLIP_MAP ==
    "AU" :> "AD" @@ "AD" :> "AU" @@ "AUL" :> "ADL" @@ "ADL" :> "AUL"
    @@ "AUR" :> "ADR" @@ "ADR" :> "AUR" @@ "^" :> "v" @@ "v" :> "^"
    @@ "DR" :> "UR" @@ "UR" :> "DR" @@ "DL" :> "UL" @@ "UL" :> "DL"
    @@ "DH" :> "UH" @@ "UH" :> "DH" @@ "U" :> "D" @@ "D" :> "U"

\* canvas.py: flip_canvas_vertically: every column reversed, then remapped.
flip_canvas_vertically(cv) ==
    Eager([i \in 1..Len(cv) |->
        Eager([j \in 1..Len(cv[i]) |->
            LET c == cv[i][Len(cv[i]) + 1 - j]
            IN IF c \in DOMAIN VERTICAL_FLIP_MAP THEN VERTICAL_FLIP_MAP[c] ELSE c])])

(***************************************************************************)
(* create_mapping from line 447: one action per statement or loop          *)
(* iteration, in program order.                                            *)
(***************************************************************************)
renderInputs == <<subgraphs, display_label, bottom_to_top, edge_text_len, padding_x, padding_y,
                  box_border_padding>>

\* Lines 447-449: one iteration of the loop over graph.nodes.
SetColumnWidths ==
    /\ pc = "placed"
    /\ rpc = "widths"
    /\ LET sizes == set_column_width(<<column_width, row_height>>, node_idx)
       IN /\ column_width' = sizes[1]
          /\ row_height' = sizes[2]
    /\ node_idx' = node_idx + 1
    /\ edge_idx' = IF node_idx = numNodes THEN 1 ELSE edge_idx
    /\ rpc' = IF node_idx < numNodes THEN "widths"
              ELSE IF edges = <<>> THEN "coords" ELSE "route"
    /\ UNCHANGED <<renderInputs, canvas, layers, edge_path, start_dir, end_dir, label_line,
                   drawing_coord, drawing, canvas_size, sg_box, offset_x, offset_y, written,
                   layers_size>>
    /\ UNCHANGED notRenderVars

DeterminePath ==
    /\ rpc = "route"
    /\ LET r == determine_path(edges[edge_idx][1], edges[edge_idx][2])
       IN IF r.returned
          THEN /\ edge_path' = [edge_path EXCEPT ![edge_idx] = r.path]
               /\ start_dir' = [start_dir EXCEPT ![edge_idx] = r.start_dir]
               /\ end_dir' = [end_dir EXCEPT ![edge_idx] = r.end_dir]
               /\ rpc' = "grow"
          ELSE /\ rpc' = "diverged"
               /\ UNCHANGED <<edge_path, start_dir, end_dir>>
    /\ UNCHANGED <<renderInputs, node_idx, canvas, layers, column_width, row_height,
                   edge_idx, label_line, drawing_coord, drawing, canvas_size, sg_box,
                   offset_x, offset_y, written, layers_size>>
    /\ UNCHANGED notRenderVars

IncreaseGridSizeForPath ==
    /\ rpc = "grow"
    /\ LET sizes == increase_grid_size_for_path(<<column_width, row_height>>,
                                                edge_path[edge_idx])
       IN /\ column_width' = sizes[1]
          /\ row_height' = sizes[2]
    /\ rpc' = "label"
    /\ UNCHANGED <<renderInputs, node_idx, canvas, layers, edge_idx, edge_path, start_dir,
                   end_dir, label_line, drawing_coord, drawing, canvas_size, sg_box,
                   offset_x, offset_y, written, layers_size>>
    /\ UNCHANGED notRenderVars

\* Lines 266-267 index edge.path[0] and edge.path[1]: IndexError on a path of
\* fewer than two cells.
DetermineLabelLine ==
    /\ rpc = "label"
    /\ LET len_label == edge_text_len[edge_idx]
           p == edge_path[edge_idx]
       IN IF len_label = 0
          THEN /\ rpc' = IF edge_idx = Len(edges) THEN "coords" ELSE "route"
               /\ edge_idx' = edge_idx + 1
               /\ UNCHANGED <<column_width, label_line>>
          ELSE IF Len(p) < 2
          THEN /\ rpc' = "failed"
               /\ UNCHANGED <<column_width, label_line, edge_idx>>
          ELSE LET largest_line == LargestLine(column_width, p, len_label, 2,
                                               <<p[1], p[2]>>, 0)
                   middle_x == MiddleX(largest_line)
               IN /\ column_width' = SetMax(column_width, middle_x, len_label + 2)
                  /\ label_line' = [label_line EXCEPT ![edge_idx] = largest_line]
                  /\ rpc' = IF edge_idx = Len(edges) THEN "coords" ELSE "route"
                  /\ edge_idx' = edge_idx + 1
    /\ UNCHANGED <<renderInputs, node_idx, canvas, layers, row_height, edge_path, start_dir,
                   end_dir, drawing_coord, drawing, canvas_size, sg_box, offset_x, offset_y,
                   written, layers_size>>
    /\ UNCHANGED notRenderVars

\* Lines 457-462; draw_box makes mk_canvas(w, h) with w and h the sums of the
\* block's first two columns and rows.
SetDrawingCoords ==
    /\ rpc = "coords"
    /\ drawing_coord' = [n \in 1..numNodes |-> grid_to_drawing_coord(grid_coord[n])]
    /\ drawing' = [n \in 1..numNodes |->
                      LET gc == grid_coord[n]
                      IN <<Get(column_width, gc[1]) + Get(column_width, gc[1] + 1),
                           Get(row_height, gc[2]) + Get(row_height, gc[2] + 1)>>]
    /\ rpc' = "size"
    /\ UNCHANGED <<renderInputs, node_idx, canvas, layers, column_width, row_height,
                   edge_idx, edge_path, start_dir, end_dir, label_line, canvas_size, sg_box,
                   offset_x, offset_y, written, layers_size>>
    /\ UNCHANGED notRenderVars

\* canvas.py: set_canvas_size_to_grid.
SetCanvasSizeToGrid ==
    /\ rpc = "size"
    /\ LET max_x == SumOver(column_width, DOMAIN column_width)
           max_y == SumOver(row_height, DOMAIN row_height)
       IN canvas' = increase_size(canvas, max_x - 1, max_y - 1)
    /\ canvas_size' = get_canvas_size(canvas')
    /\ rpc' = "bounding_boxes"
    /\ UNCHANGED <<renderInputs, node_idx, layers, column_width, row_height, edge_idx,
                   edge_path, start_dir, end_dir, label_line, drawing_coord, drawing, sg_box,
                   offset_x, offset_y, written, layers_size>>
    /\ UNCHANGED notRenderVars

SetMinimum(S) == CHOOSE m \in S : \A x \in S : m <= x
SetMaximum(S) == CHOOSE m \in S : \A x \in S : m >= x

\* The subgraphs whose parent is sg, in list order.
Children(sg) == SeqFilter([i \in 1..Len(subgraphs) |-> i],
                          {i \in 1..Len(subgraphs) : subgraphs[i].parent = sg})

\* grid.py: _calculate_subgraph_bounding_box.  boxes holds the box of every
\* subgraph; the result has the boxes of sg and of its descendants computed.
RECURSIVE calculate_subgraph_bounding_box(_, _)
RECURSIVE CalculateChildren(_, _)
CalculateChildren(boxes, children) ==
    IF children = <<>> THEN boxes
    ELSE CalculateChildren(calculate_subgraph_bounding_box(boxes, Head(children)),
                           Tail(children))

calculate_subgraph_bounding_box(boxes, sg) ==
    IF subgraphs[sg].nodes = {} THEN boxes
    ELSE LET children == Children(sg)
             computed == CalculateChildren(boxes, children)
             child_boxes == {computed[c] : c \in {d \in SeqRange(children) :
                                                      subgraphs[d].nodes # {}}}
             owned == subgraphs[sg].nodes
             min_x == SetMinimum({b[1] : b \in child_boxes}
                                 \cup {drawing_coord[n][1] : n \in owned})
             min_y == SetMinimum({b[2] : b \in child_boxes}
                                 \cup {drawing_coord[n][2] : n \in owned})
             max_x == SetMaximum({b[3] : b \in child_boxes}
                                 \cup {drawing_coord[n][1] + drawing[n][1] : n \in owned})
             max_y == SetMaximum({b[4] : b \in child_boxes}
                                 \cup {drawing_coord[n][2] + drawing[n][2] : n \in owned})
         IN [computed EXCEPT ![sg] = <<min_x - SubgraphPadding,
                                       min_y - SubgraphPadding - SubgraphLabelSpace,
                                       max_x + SubgraphPadding,
                                       max_y + SubgraphPadding>>]

RECURSIVE CalculateAll(_, _)
CalculateAll(boxes, sg) ==
    IF sg > Len(subgraphs) THEN boxes
    ELSE CalculateAll(calculate_subgraph_bounding_box(boxes, sg), sg + 1)

\* _ensure_subgraph_spacing: root_subgraphs, in list order.
RootSubgraphs ==
    SeqFilter([i \in 1..Len(subgraphs) |-> i],
              {i \in 1..Len(subgraphs) : subgraphs[i].parent = 0 /\ subgraphs[i].nodes # {}})

\* Lines 275-285: the vertical adjustment of the pair sg1, sg2.
AdjustVertical(boxes, sg1, sg2) ==
    LET b1 == boxes[sg1]
        b2 == boxes[sg2]
    IN IF b1[1] < b2[3] /\ b1[3] > b2[1]
       THEN IF b1[4] >= b2[2] - MinSpacing /\ b1[2] < b2[2]
            THEN [boxes EXCEPT ![sg2][2] = b1[4] + MinSpacing + 1]
            ELSE IF b2[4] >= b1[2] - MinSpacing /\ b2[2] < b1[2]
                 THEN [boxes EXCEPT ![sg1][2] = b2[4] + MinSpacing + 1]
                 ELSE boxes
       ELSE boxes

\* Lines 287-298: the horizontal adjustment, on the boxes the vertical one left.
AdjustHorizontal(boxes, sg1, sg2) ==
    LET b1 == boxes[sg1]
        b2 == boxes[sg2]
    IN IF b1[2] < b2[4] /\ b1[4] > b2[2]
       THEN IF b1[3] >= b2[1] - MinSpacing /\ b1[1] < b2[1]
            THEN [boxes EXCEPT ![sg2][1] = b1[3] + MinSpacing + 1]
            ELSE IF b2[3] >= b1[1] - MinSpacing /\ b2[1] < b1[1]
                 THEN [boxes EXCEPT ![sg1][1] = b2[3] + MinSpacing + 1]
                 ELSE boxes
       ELSE boxes

\* The double loop of lines 269-298, at the pair roots[i], roots[j].
RECURSIVE ensure_subgraph_spacing(_, _, _, _)
ensure_subgraph_spacing(boxes, roots, i, j) ==
    IF i > Len(roots) THEN boxes
    ELSE IF j > Len(roots) THEN ensure_subgraph_spacing(boxes, roots, i + 1, i + 2)
    ELSE ensure_subgraph_spacing(
             AdjustHorizontal(AdjustVertical(boxes, roots[i], roots[j]), roots[i], roots[j]),
             roots, i, j + 1)

calculate_subgraph_bounding_boxes(boxes) ==
    ensure_subgraph_spacing(CalculateAll(boxes, 1), RootSubgraphs, 1, 2)

CalculateSubgraphBoundingBoxes ==
    /\ rpc = "bounding_boxes"
    /\ sg_box' = calculate_subgraph_bounding_boxes(sg_box)
    /\ rpc' = "offset"
    /\ UNCHANGED <<renderInputs, node_idx, canvas, layers, column_width, row_height,
                   edge_idx, edge_path, start_dir, end_dir, label_line, drawing_coord,
                   drawing, canvas_size, offset_x, offset_y, written, layers_size>>
    /\ UNCHANGED notRenderVars

OffsetDrawingForSubgraphs ==
    /\ rpc = "offset"
    /\ LET off_x == -SetMinimum({0} \cup {sg_box[i][1] : i \in 1..Len(subgraphs)})
           off_y == -SetMinimum({0} \cup {sg_box[i][2] : i \in 1..Len(subgraphs)})
       IN IF subgraphs = <<>> \/ (off_x = 0 /\ off_y = 0)
          THEN UNCHANGED <<offset_x, offset_y, sg_box, drawing_coord>>
          ELSE /\ offset_x' = off_x
               /\ offset_y' = off_y
               /\ sg_box' = [i \in 1..Len(subgraphs) |->
                                <<sg_box[i][1] + off_x, sg_box[i][2] + off_y,
                                  sg_box[i][3] + off_x, sg_box[i][4] + off_y>>]
               /\ drawing_coord' = [n \in 1..numNodes |->
                                       <<drawing_coord[n][1] + off_x,
                                         drawing_coord[n][2] + off_y>>]
    /\ rpc' = "boxes"
    /\ UNCHANGED <<renderInputs, node_idx, canvas, layers, column_width, row_height,
                   edge_idx, edge_path, start_dir, end_dir, label_line, drawing,
                   canvas_size, written, layers_size>>
    /\ UNCHANGED notRenderVars

\* A canvas a drawing function returns: a blank canvas of the given size and
\* the assignments canvas[x][y] = c made on it, <<x, y, c>>, in program order.
Drawn(size, writes) == [size |-> size, writes |-> writes]

RECURSIVE PutAll(_, _)
PutAll(cv, writes) ==
    IF writes = <<>> THEN cv
    ELSE LET w == Head(writes)
         IN PutAll([cv EXCEPT ![w[1] + 1][w[2] + 1] = w[3]], Tail(writes))

Dense(d) == PutAll(mk_canvas(d.size[1], d.size[2]), d.writes)

\* draw_box and draw_subgraph_box: the border of a rectangle from (0, 0) to
\* (w, h).
BoxBorder(w, h) ==
    LET h_char == IF use_ascii THEN "-" ELSE "H"
        v_char == IF use_ascii THEN "|" ELSE "V"
    IN [k \in 1..Max(w - 1, 0) |-> <<k, 0, h_char>>]
       \o [k \in 1..Max(w - 1, 0) |-> <<k, h, h_char>>]
       \o [k \in 1..Max(h - 1, 0) |-> <<0, k, v_char>>]
       \o [k \in 1..Max(h - 1, 0) |-> <<w, k, v_char>>]
       \o << <<0, 0, IF use_ascii THEN "+" ELSE "DR">>,
             <<w, 0, IF use_ascii THEN "+" ELSE "DL">>,
             <<0, h, IF use_ascii THEN "+" ELSE "UR">>,
             <<w, h, IF use_ascii THEN "+" ELSE "UL">> >>

\* draw.py: draw_box, lines 186-191: the centred label.
BoxLabel(node) ==
    LET w == drawing[node][1]
        h == drawing[node][2]
        label == display_label[node]
        text_y == h \div 2
        text_x == w \div 2 - (Len(label) + 1) \div 2 + 1
    IN [i \in 1..Len(label) |-> <<text_x + i - 1, text_y, label[i]>>]

\* draw.py: draw_box, on the sizes SetDrawingCoords computed.
draw_box(node) ==
    Drawn(drawing[node], BoxBorder(drawing[node][1], drawing[node][2]) \o BoxLabel(node))

\* draw.py: draw_subgraph_box.
draw_subgraph_box(sg) ==
    LET width == sg_box[sg][3] - sg_box[sg][1]
        height == sg_box[sg][4] - sg_box[sg][2]
    IN IF width <= 0 \/ height <= 0 THEN Drawn(<<0, 0>>, <<>>)
       ELSE Drawn(<<width, height>>, BoxBorder(width, height))

\* The text of sg.name: every subgraph of the model is called "s".
SubgraphName == <<"s">>

\* draw.py: draw_subgraph_label: the canvas and the offset it returns.
draw_subgraph_label(sg) ==
    LET width == sg_box[sg][3] - sg_box[sg][1]
        height == sg_box[sg][4] - sg_box[sg][2]
        centred == width \div 2 - Len(SubgraphName) \div 2
        label_x == IF centred < 1 THEN 1 ELSE centred
    IN IF width <= 0 \/ height <= 0
       THEN [canvas |-> Drawn(<<0, 0>>, <<>>), offset |-> <<0, 0>>]
       ELSE [canvas |-> Drawn(<<width, height>>,
                              LET all == [i \in 1..Len(SubgraphName) |->
                                             <<label_x + i - 1, 1, SubgraphName[i]>>]
                              IN SeqFilter(all, {w \in SeqRange(all) : w[1] < width})),
             offset |-> <<sg_box[sg][1], sg_box[sg][2]>>]

\* draw.py: _sort_subgraphs_by_depth (a stable sort).
RECURSIVE Depth(_)
Depth(sg) == IF subgraphs[sg].parent = 0 THEN 0 ELSE 1 + Depth(subgraphs[sg].parent)

RECURSIVE SortedFromDepth(_)
SortedFromDepth(d) ==
    IF d > Len(subgraphs) THEN <<>>
    ELSE SeqFilter([i \in 1..Len(subgraphs) |-> i],
                   {i \in 1..Len(subgraphs) : Depth(i) = d}) \o SortedFromDepth(d + 1)

sort_subgraphs_by_depth == SortedFromDepth(0)

\* draw_graph, lines 637-642, on the canvas cv.
RECURSIVE DrawSubgraphBorders(_, _)
DrawSubgraphBorders(cv, sgs) ==
    IF sgs = <<>> THEN cv
    ELSE DrawSubgraphBorders(
             merge_canvases(cv, <<sg_box[Head(sgs)][1], sg_box[Head(sgs)][2]>>, use_ascii,
                            <<Dense(draw_subgraph_box(Head(sgs)))>>),
             Tail(sgs))

\* draw_graph, lines 644-650.
RECURSIVE DrawNodeBoxes(_, _)
DrawNodeBoxes(cv, node) ==
    IF node > numNodes THEN cv
    ELSE DrawNodeBoxes(merge_canvases(cv, drawing_coord[node], use_ascii,
                                      <<Dense(draw_box(node))>>),
                       node + 1)

\* draw_graph, lines 675-680.
RECURSIVE DrawSubgraphLabels(_, _)
DrawSubgraphLabels(cv, sg) ==
    IF sg > Len(subgraphs) THEN cv
    ELSE DrawSubgraphLabels(
             IF subgraphs[sg].nodes = {} THEN cv
             ELSE LET label == draw_subgraph_label(sg)
                  IN merge_canvases(cv, label.offset, use_ascii, <<Dense(label.canvas)>>),
             sg + 1)

(***************************************************************************)
(* draw.py: draw_graph, lines 637-650.  Merging the subgraph borders and   *)
(* the node boxes grows graph.canvas to hold them (merge_canvases, lines   *)
(* 116-120).                                                               *)
(***************************************************************************)
GrowTo(size, off, overlay_size) ==
    <<Max(size[1], overlay_size[1] + off[1]), Max(size[2], overlay_size[2] + off[2])>>

DrawBoxes ==
    /\ rpc = "boxes"
    /\ canvas' = DrawNodeBoxes(DrawSubgraphBorders(canvas, sort_subgraphs_by_depth), 1)
    /\ canvas_size' = get_canvas_size(canvas')
    /\ layers_size' = <<0, 0>>
    /\ edge_idx' = 1
    /\ rpc' = IF edges = <<>> THEN "merge" ELSE "arrows"
    /\ UNCHANGED <<renderInputs, node_idx, layers, column_width, row_height, edge_path,
                   start_dir, end_dir, label_line, drawing_coord, drawing, sg_box, offset_x,
                   offset_y, written>>
    /\ UNCHANGED notRenderVars

(***************************************************************************)
(* draw.py: draw_line.  The coordinates it writes, in order: n cells from  *)
(* <<x, y>> in steps of <<sx, sy>>.                                        *)
(***************************************************************************)
Walk(x, y, sx, sy, n) ==
    [k \in 1..Max(n, 0) |-> <<x + sx * (k - 1), y + sy * (k - 1)>>]

draw_line(a, b, offset_from, offset_to) ==
    LET direction == determine_direction(a, b)
    IN CASE direction = Up ->
                Walk(a[1], a[2] - offset_from, 0, -1,
                     (a[2] - offset_from) - (b[2] - offset_to) + 1)
         [] direction = Down ->
                Walk(a[1], a[2] + offset_from, 0, 1,
                     (b[2] + offset_to) - (a[2] + offset_from) + 1)
         [] direction = Left ->
                Walk(a[1] - offset_from, a[2], -1, 0,
                     (a[1] - offset_from) - (b[1] - offset_to) + 1)
         [] direction = Right ->
                Walk(a[1] + offset_from, a[2], 1, 0,
                     (b[1] + offset_to) - (a[1] + offset_from) + 1)
         [] direction = UpperLeft ->
                Walk(a[1], a[2] - offset_from, -1, -1,
                     Min(a[1] - (b[1] - offset_to),
                         (a[2] - offset_from) - (b[2] - offset_to)) + 1)
         [] direction = UpperRight ->
                Walk(a[1], a[2] - offset_from, 1, -1,
                     Min((b[1] + offset_to) - a[1],
                         (a[2] - offset_from) - (b[2] - offset_to)) + 1)
         [] direction = LowerLeft ->
                Walk(a[1], a[2] + offset_from, -1, 1,
                     Min(a[1] - (b[1] - offset_to),
                         (b[2] + offset_to) - (a[2] + offset_from)) + 1)
         [] direction = LowerRight ->
                Walk(a[1], a[2] + offset_from, 1, 1,
                     Min((b[1] + offset_to) - a[1],
                         (b[2] + offset_to) - (a[2] + offset_from)) + 1)

\* draw_line: the character it writes on every cell of a line.
LineChar(direction) ==
    CASE direction \in {Up, Down} -> IF use_ascii THEN "|" ELSE "V"
      [] direction \in {Left, Right} -> IF use_ascii THEN "-" ELSE "H"
      [] direction \in {UpperLeft, LowerRight} -> IF use_ascii THEN "\\" ELSE "BS"
      [] direction \in {UpperRight, LowerLeft} -> IF use_ascii THEN "/" ELSE "FS"

(***************************************************************************)
(* draw.py: _draw_path.  acc = [cells, writes, lines_drawn, line_dirs]:    *)
(* the cells draw_line wrote, the characters it wrote on them, the list of *)
(* segments and their directions.                                          *)
(***************************************************************************)
RECURSIVE draw_path(_, _, _)
draw_path(p, i, acc) ==
    IF i > Len(p) THEN acc
    ELSE LET prev_dc == grid_to_drawing_coord(p[i - 1])
             next_dc == grid_to_drawing_coord(p[i])
             drawn == draw_line(prev_dc, next_dc, 1, -1)
             char == LineChar(determine_direction(prev_dc, next_dc))
             segment == IF drawn = <<>> THEN <<prev_dc>> ELSE drawn
         IN IF prev_dc = next_dc THEN draw_path(p, i + 1, acc)
            ELSE draw_path(p, i + 1,
                           [cells |-> acc.cells \cup SeqRange(drawn),
                            writes |-> acc.writes
                                           \o [k \in 1..Len(drawn) |->
                                                  <<drawn[k][1], drawn[k][2], char>>],
                            lines_drawn |-> Append(acc.lines_drawn, segment),
                            line_dirs |-> Append(acc.line_dirs,
                                                 determine_direction(p[i - 1], p[i]))])

\* _draw_box_start without the test of use_ascii on line 357.
draw_box_start_Unicode(p, first_line) ==
    LET from == first_line[1]
        direction == determine_direction(p[1], p[2])
    IN CASE direction = Up -> << <<from[1], from[2] + 1, "UH">> >>
         [] direction = Down -> << <<from[1], from[2] - 1, "DH">> >>
         [] direction = Left -> << <<from[1] + 1, from[2], "VL">> >>
         [] direction = Right -> << <<from[1] - 1, from[2], "VR">> >>
         [] OTHER -> <<>>

\* _draw_box_start: the junction on the cell next to the first drawn
\* coordinate.
draw_box_start(p, first_line) ==
    IF use_ascii THEN <<>>
    ELSE LET from == first_line[1]
             direction == determine_direction(p[1], p[2])
         IN CASE direction = Up -> << <<from[1], from[2] + 1, "UH">> >>
              [] direction = Down -> << <<from[1], from[2] - 1, "DH">> >>
              [] direction = Left -> << <<from[1] + 1, from[2], "VL">> >>
              [] direction = Right -> << <<from[1] - 1, from[2], "VR">> >>
              [] OTHER -> <<>>

\* draw.py: _unicode_arrow_char; determine_direction returns one of the
\* eight directions, so the fallback is not reached.
unicode_arrow_char(direction) ==
    CASE direction = Up -> "AU"
      [] direction = Down -> "AD"
      [] direction = Left -> "AL"
      [] direction = Right -> "AR"
      [] direction = UpperRight -> "AUR"
      [] direction = UpperLeft -> "AUL"
      [] direction = LowerRight -> "ADR"
      [] direction = LowerLeft -> "ADL"
      [] OTHER -> "DOT"

\* draw.py: _ascii_arrow_char.
ascii_arrow_char(direction, fallback_dir) ==
    LET Arrow(d) == CASE d = Up -> "^"
                      [] d = Down -> "v"
                      [] d = Left -> "<"
                      [] d = Right -> ">"
                      [] OTHER -> ""
    IN IF Arrow(direction) # "" THEN Arrow(direction)
       ELSE IF Arrow(fallback_dir) # "" THEN Arrow(fallback_dir)
       ELSE "*"

\* _draw_arrow_head: the arrowhead on the last coordinate of the last
\* segment.
draw_arrow_head(last_line, fallback_dir) ==
    IF last_line = <<>> THEN <<>>
    ELSE LET from == last_line[1]
             last_pos == last_line[Len(last_line)]
             measured == determine_direction(from, last_pos)
             direction == IF Len(last_line) = 1 \/ measured = Middle THEN fallback_dir
                          ELSE measured
         IN << <<last_pos[1], last_pos[2],
                 IF use_ascii THEN ascii_arrow_char(direction, fallback_dir)
                 ELSE unicode_arrow_char(direction)>> >>

\* _draw_corners: the corner glyph of an inner waypoint.
CornerChar(prev_dir, next_dir) ==
    IF use_ascii THEN "+"
    ELSE IF (prev_dir = Right /\ next_dir = Down) \/ (prev_dir = Up /\ next_dir = Left)
    THEN "DL"
    ELSE IF (prev_dir = Right /\ next_dir = Up) \/ (prev_dir = Down /\ next_dir = Left)
    THEN "UL"
    ELSE IF (prev_dir = Left /\ next_dir = Down) \/ (prev_dir = Up /\ next_dir = Right)
    THEN "DR"
    ELSE IF (prev_dir = Left /\ next_dir = Up) \/ (prev_dir = Down /\ next_dir = Right)
    THEN "UR"
    ELSE "+"

\* _draw_corners: every inner waypoint of the path.
draw_corners(p) ==
    [k \in 1..Max(Len(p) - 2, 0) |->
        LET dc == grid_to_drawing_coord(p[k + 1])
        IN <<dc[1], dc[2],
             CornerChar(determine_direction(p[k], p[k + 1]),
                        determine_direction(p[k + 1], p[k + 2]))>>]

\* _draw_arrow_label, _draw_text_on_line and draw_text: the size of the
\* label canvas, which draw_text grows to hold the text before writing it.
LabelCanvasSize(e) ==
    IF edge_text_len[e] = 0 \/ Len(label_line[e]) < 2 THEN canvas_size
    ELSE LET line == <<grid_to_drawing_coord(label_line[e][1]),
                       grid_to_drawing_coord(label_line[e][2])>>
             start_x == MiddleX(line) - edge_text_len[e] \div 2
         IN <<Max(canvas_size[1], start_x + edge_text_len[e]),
              Max(canvas_size[2], MiddleY(line))>>

\* The text of an edge: edge_text_len[e] letters.
EdgeText(e) == [i \in 1..edge_text_len[e] |-> "b"]

\* _draw_arrow_label: the text written from start_x on row middle_y; a
\* negative index counts from the end of the list.
draw_arrow_label(e) ==
    IF edge_text_len[e] = 0 \/ Len(label_line[e]) < 2 THEN Drawn(canvas_size, <<>>)
    ELSE LET line == <<grid_to_drawing_coord(label_line[e][1]),
                       grid_to_drawing_coord(label_line[e][2])>>
             start_x == MiddleX(line) - edge_text_len[e] \div 2
             size == LabelCanvasSize(e)
             text == EdgeText(e)
         IN Drawn(size, [i \in 1..Len(text) |->
                            <<(start_x + i - 1) % (size[1] + 1), MiddleY(line), text[i]>>])

InsideCanvas(c) ==
    /\ 0 <= c[1] /\ c[1] <= canvas_size[1]
    /\ 0 <= c[2] /\ c[2] <= canvas_size[2]

\* copy_canvas(graph.canvas): a blank canvas of the same size.
copy_canvas == Drawn(canvas_size, <<>>)

\* draw_graph, lines 659-665: draw_arrow for the edge at edge_idx.  Every
\* canvas it writes on is copy_canvas(graph.canvas); a write outside it ends
\* the rendering (IndexError) or lands on another cell (negative index).
DrawArrow ==
    /\ rpc = "arrows"
    /\ LET p == edge_path[edge_idx]
           drawn == draw_path(p, 2, [cells |-> {}, writes |-> <<>>, lines_drawn |-> <<>>,
                                     line_dirs |-> <<>>])
           lines_drawn == drawn.lines_drawn
           box_start == draw_box_start(p, lines_drawn[1])
           arrow_head == draw_arrow_head(lines_drawn[Len(lines_drawn)],
                                         drawn.line_dirs[Len(drawn.line_dirs)])
           corners == draw_corners(p)
           cells == IF lines_drawn = <<>> THEN drawn.cells
                    ELSE drawn.cells
                             \cup {<<w[1], w[2]>> :
                                      w \in SeqRange(box_start \o arrow_head \o corners)}
       IN IF p = <<>>
          THEN /\ UNCHANGED written
               /\ layers' = [layers EXCEPT ![edge_idx] =
                                [path |-> copy_canvas, box_start |-> copy_canvas,
                                 arrow_head |-> copy_canvas, corners |-> copy_canvas,
                                 label |-> copy_canvas]]
               /\ layers_size' = GrowTo(layers_size, <<0, 0>>, canvas_size)
               /\ rpc' = IF edge_idx = Len(edges) THEN "merge" ELSE "arrows"
               /\ edge_idx' = edge_idx + 1
          ELSE /\ written' = [written EXCEPT ![edge_idx] = cells]
               /\ IF lines_drawn = <<>> \/ \E c \in cells : ~InsideCanvas(c)
                  THEN /\ rpc' = "failed"
                       /\ UNCHANGED <<layers, layers_size, edge_idx>>
                  ELSE /\ layers' = [layers EXCEPT ![edge_idx] =
                                        [path |-> Drawn(canvas_size, drawn.writes),
                                         box_start |-> Drawn(canvas_size, box_start),
                                         arrow_head |-> Drawn(canvas_size, arrow_head),
                                         corners |-> Drawn(canvas_size, corners),
                                         label |-> draw_arrow_label(edge_idx)]]
                       /\ layers_size' = GrowTo(layers_size, <<0, 0>>,
                                                LabelCanvasSize(edge_idx))
                       /\ rpc' = IF edge_idx = Len(edges) THEN "merge" ELSE "arrows"
                       /\ edge_idx' = edge_idx + 1
    /\ UNCHANGED <<renderInputs, node_idx, canvas, column_width, row_height, edge_path,
                   start_dir, end_dir, label_line, drawing_coord, drawing, canvas_size, sg_box,
                   offset_x, offset_y>>
    /\ UNCHANGED notRenderVars

\* The canvases of one kind that draw_arrow returned, in edge order.
Layer(kind) == Eager([e \in 1..Len(edges) |-> Dense(layers[e][kind])])

\* draw_graph, lines 667-680: the five layer merges and the subgraph labels.
MergeLayers ==
    /\ rpc = "merge"
    /\ LET zero == <<0, 0>>
           lines == merge_canvases(canvas, zero, use_ascii, Layer("path"))
           corners == merge_canvases(lines, zero, use_ascii, Layer("corners"))
           arrow_heads == merge_canvases(corners, zero, use_ascii, Layer("arrow_head"))
           box_starts == merge_canvases(arrow_heads, zero, use_ascii, Layer("box_start"))
           labels == merge_canvases(box_starts, zero, use_ascii, Layer("label"))
       IN canvas' = DrawSubgraphLabels(labels, 1)
    /\ canvas_size' = get_canvas_size(canvas')
    /\ rpc' = "done"
    /\ UNCHANGED <<renderInputs, node_idx, layers, column_width, row_height, edge_idx,
                   edge_path, start_dir, end_dir, label_line, drawing_coord, drawing, sg_box,
                   offset_x, offset_y, written, layers_size>>
    /\ UNCHANGED notRenderVars

\* __init__.py, render_mermaid_ascii: the canvas of a BT diagram, laid out
\* as TD, is flipped.
FlipCanvasVertically ==
    /\ rpc = "done"
    /\ bottom_to_top
    /\ canvas' = flip_canvas_vertically(canvas)
    /\ rpc' = "flipped"
    /\ UNCHANGED <<renderInputs, node_idx, layers, column_width, row_height, edge_idx,
                   edge_path, start_dir, end_dir, label_line, drawing_coord, drawing,
                   canvas_size, sg_box, offset_x, offset_y, written, layers_size>>
    /\ UNCHANGED notRenderVars

NextLayout ==
    \/ SetColumnWidths
    \/ DeterminePath
    \/ IncreaseGridSizeForPath
    \/ DetermineLabelLine
    \/ SetDrawingCoords
    \/ SetCanvasSizeToGrid
    \/ CalculateSubgraphBoundingBoxes
    \/ OffsetDrawingForSubgraphs
    \/ DrawBoxes
    \/ DrawArrow
    \/ MergeLayers

(***************************************************************************)
(* The whole pipeline, create_mapping then draw_graph, on every graph of   *)
(* up to MaxRenderNodes nodes and MaxRenderEdges edges, labelled or not,   *)
(* with every list of up to MaxSubgraphs subgraphs the converter can       *)
(* build: flattened in pre-order, every node owned by at most one subgraph *)
(* and listed in its owner and the owner's ancestors.                      *)
(***************************************************************************)
RECURSIVE AncestorsOrSelf(_, _)
AncestorsOrSelf(parent, sg) ==
    IF sg = 0 THEN {} ELSE {sg} \cup AncestorsOrSelf(parent, parent[sg])

PreOrder(parent) ==
    \A i \in DOMAIN parent :
        /\ parent[i] < i
        /\ i > 1 => (parent[i] = 0 \/ parent[i] \in AncestorsOrSelf(parent, i - 1))

SubgraphLists(n, k) ==
    UNION {{[i \in 1..m |->
               [nodes |-> UNION {own[d] : d \in {j \in 1..m : i \in AncestorsOrSelf(parent, j)}},
                parent |-> parent[i]]] :
              own \in {o \in [1..m -> SUBSET (1..n)] :
                          \A i, j \in 1..m : i # j => o[i] \cap o[j] = {}},
              parent \in {q \in [1..m -> 0..k] : PreOrder(q)}} : m \in 0..k}

RenderStart ==
    /\ column_width = EmptyGrid
    /\ row_height = EmptyGrid
    /\ edge_idx = 0
    /\ edge_path = [e \in 1..Len(edges) |-> <<>>]
    /\ start_dir = [e \in 1..Len(edges) |-> UpperLeft]
    /\ end_dir = [e \in 1..Len(edges) |-> UpperLeft]
    /\ label_line = [e \in 1..Len(edges) |-> <<>>]
    /\ drawing_coord = [n \in 1..numNodes |-> None]
    /\ drawing = [n \in 1..numNodes |-> None]
    /\ canvas_size = <<0, 0>>
    /\ sg_box = [i \in 1..Len(subgraphs) |-> <<0, 0, 0, 0>>]
    /\ offset_x = 0
    /\ offset_y = 0
    /\ written = [e \in 1..Len(edges) |-> {}]
    /\ layers_size = <<0, 0>>
    /\ node_idx = 1
    /\ canvas = mk_canvas(0, 0)
    /\ layers = [e \in 1..Len(edges) |-> <<>>]
    /\ rpc = "widths"

InitRender ==
    /\ numNodes \in 1..MaxRenderNodes
    /\ edges \in EdgeLists(numNodes, MaxRenderEdges)
    /\ graph_direction \in {"LR", "TD"}
    /\ subgraphs \in SubgraphLists(numNodes, MaxSubgraphs)
    /\ subgraphNodes = UNION {subgraphs[i].nodes : i \in 1..Len(subgraphs)}
    /\ grid = EmptyGrid
    /\ grid_coord = [n \in 1..numNodes |-> None]
    /\ highest_position_per_level = [l \in {} |-> 0]
    /\ root_nodes = <<>>
    /\ external_root_nodes = <<>>
    /\ subgraph_root_nodes = <<>>
    /\ cursor = 0
    /\ pc = "find_roots"
    /\ edge_text_len \in [1..Len(edges) -> {0, LabelLen}]
    /\ padding_x = 5
    /\ padding_y = 5
    /\ box_border_padding = 1
    /\ display_label = [n \in 1..numNodes |-> [i \in 1..NodeLabelLen |-> "a"]]
    /\ bottom_to_top = FALSE
    /\ RenderStart
    /\ base = <<>>
    /\ offset = <<0, 0>>
    /\ use_ascii \in BOOLEAN
    /\ overlays = <<>>
    /\ merged = None
    /\ JunctionIdle
    /\ PathIdle
    /\ SimplifyIdle
    /\ GrowIdle
    /\ FlipIdle
    /\ HeapIdle

NextRender ==
    \/ NextPlace
    \/ NextLayout

SpecRender == InitRender /\ [][NextRender]_vars

(***************************************************************************)
(* C7: every cell draw_arrow writes for an edge (line cells, the box-exit  *)
(* junction, the arrowhead, corners) lies inside the canvas it writes on,  *)
(* which has the size of graph.canvas.                                     *)
(***************************************************************************)
C7_WritesInsideCanvas ==
    \A e \in DOMAIN written : \A c \in written[e] : InsideCanvas(c)

(***************************************************************************)
(* determine_path and the steps after it on a graph whose blocks the       *)
(* caller has reserved: node 1 and node 2 at lattice positions, joined by  *)
(* one edge, and up to MaxRouteNodes - 2 more blocks anywhere they fit.    *)
(***************************************************************************)
RECURSIVE ReserveAll(_, _, _)
ReserveAll(g, gc, node) ==
    IF node > Len(gc) THEN g
    ELSE ReserveAll(ReserveAt(g, node, gc[node]), gc, node + 1)

InitRoute ==
    /\ numNodes \in 2..MaxRouteNodes
    /\ edges = << <<1, 2>> >>
    /\ graph_direction \in {"LR", "TD"}
    /\ subgraphNodes = {}
    /\ grid_coord \in [1..numNodes -> (0..MaxCoord) \X (0..MaxCoord)]
    /\ grid_coord[1] \in Origins
    /\ grid_coord[2] \in Origins
    /\ \A m, n \in 1..numNodes : m # n => Block(grid_coord[m]) \cap Block(grid_coord[n]) = {}
    /\ grid = ReserveAll(EmptyGrid, grid_coord, 1)
    /\ highest_position_per_level = [l \in {} |-> 0]
    /\ root_nodes = <<>>
    /\ external_root_nodes = <<>>
    /\ subgraph_root_nodes = <<>>
    /\ cursor = 0
    /\ pc = "placed"
    /\ subgraphs = <<>>
    /\ edge_text_len \in [1..Len(edges) -> {0, LabelLen}]
    /\ padding_x = 5
    /\ padding_y = 5
    /\ box_border_padding = 1
    /\ display_label = [n \in 1..numNodes |-> [i \in 1..NodeLabelLen |-> "a"]]
    /\ bottom_to_top = FALSE
    /\ RenderStart
    /\ CanvasIdle
    /\ JunctionIdle
    /\ PathIdle
    /\ SimplifyIdle
    /\ GrowIdle
    /\ FlipIdle
    /\ HeapIdle

NextRoute == NextLayout

SpecRoute == InitRoute /\ [][NextRoute]_vars

(***************************************************************************)
(* C5: when exactly one of the two candidate anchor pairs has a path, the  *)
(* edge gets that path, simplified, and that pair's directions.            *)
(***************************************************************************)
C5_OnlyCandidateIsUsed ==
    rpc = "grow" =>
        LET from_node == edges[edge_idx][1]
            to_node == edges[edge_idx][2]
            dirs == determine_start_and_end_dir(from_node, to_node)
            preferred == PreferredSearch(from_node, to_node)
            alternative == AlternativeSearch(from_node, to_node)
        IN /\ (preferred.search = "found" /\ alternative.search = "none") =>
                  /\ edge_path[edge_idx] = merge_path(preferred.path)
                  /\ start_dir[edge_idx] = dirs[1]
                  /\ end_dir[edge_idx] = dirs[2]
           /\ (preferred.search = "none" /\ alternative.search = "found") =>
                  /\ edge_path[edge_idx] = merge_path(alternative.path)
                  /\ start_dir[edge_idx] = dirs[3]
                  /\ end_dir[edge_idx] = dirs[4]

(***************************************************************************)
(* C6: for an edge routed with an empty path, the steps that follow        *)
(* (increase_grid_size_for_path, determine_label_line, draw_arrow) do not  *)
(* fail and write nothing, with or without label text.                     *)
(***************************************************************************)
C6_EmptyPathIsSkipped ==
    \A e \in DOMAIN edge_path :
        edge_path[e] = <<>> => (written[e] = {} /\ ~(rpc = "failed" /\ edge_idx = e))

(***************************************************************************)
(* create_mapping alone, on every graph of up to MaxBoxNodes nodes and     *)
(* MaxBoxEdges edges with up to MaxSubgraphs subgraphs: placement, sizes,  *)
(* routing, drawing coordinates, the subgraph boxes and the offset.        *)
(***************************************************************************)
InitBoxes ==
    /\ numNodes \in 1..MaxBoxNodes
    /\ edges \in EdgeLists(numNodes, MaxBoxEdges)
    /\ graph_direction \in {"LR", "TD"}
    /\ subgraphs \in SubgraphLists(numNodes, MaxSubgraphs)
    /\ subgraphNodes = UNION {subgraphs[i].nodes : i \in 1..Len(subgraphs)}
    /\ grid = EmptyGrid
    /\ grid_coord = [n \in 1..numNodes |-> None]
    /\ highest_position_per_level = [l \in {} |-> 0]
    /\ root_nodes = <<>>
    /\ external_root_nodes = <<>>
    /\ subgraph_root_nodes = <<>>
    /\ cursor = 0
    /\ pc = "find_roots"
    /\ edge_text_len \in [1..Len(edges) -> {0, LabelLen}]
    /\ padding_x = 5
    /\ padding_y = 5
    /\ box_border_padding = 1
    /\ display_label = [n \in 1..numNodes |-> [i \in 1..NodeLabelLen |-> "a"]]
    /\ bottom_to_top = FALSE
    /\ RenderStart
    /\ base = <<>>
    /\ offset = <<0, 0>>
    /\ use_ascii = FALSE
    /\ overlays = <<>>
    /\ merged = None
    /\ JunctionIdle
    /\ PathIdle
    /\ SimplifyIdle
    /\ GrowIdle
    /\ FlipIdle
    /\ HeapIdle

NextBoxes ==
    \/ NextPlace
    \/ SetColumnWidths
    \/ DeterminePath
    \/ IncreaseGridSizeForPath
    \/ DetermineLabelLine
    \/ SetDrawingCoords
    \/ SetCanvasSizeToGrid
    \/ CalculateSubgraphBoundingBoxes
    \/ OffsetDrawingForSubgraphs

SpecBoxes == InitBoxes /\ [][NextBoxes]_vars

BoxesComputed == rpc \in {"offset", "boxes"}

\* b holds the rectangle <<min_x, min_y, max_x, max_y>>.
BoxContains(b, inner) ==
    b[1] <= inner[1] /\ b[2] <= inner[2] /\ inner[3] <= b[3] /\ inner[4] <= b[4]

NodeBox(n) ==
    <<drawing_coord[n][1], drawing_coord[n][2],
      drawing_coord[n][1] + drawing[n][1], drawing_coord[n][2] + drawing[n][2]>>

(***************************************************************************)
(* C11: after calculate_subgraph_bounding_boxes every subgraph that has    *)
(* nodes has min <= max in both axes, and its box contains the box of      *)
(* each child subgraph that has nodes and the drawn box of each of its     *)
(* nodes.                                                                  *)
(***************************************************************************)
C11_BoxContainsChildrenAndNodes ==
    BoxesComputed =>
        \A sg \in 1..Len(subgraphs) :
            subgraphs[sg].nodes # {} =>
                /\ sg_box[sg][1] <= sg_box[sg][3]
                /\ sg_box[sg][2] <= sg_box[sg][4]
                /\ \A c \in SeqRange(Children(sg)) :
                       subgraphs[c].nodes # {} => BoxContains(sg_box[sg], sg_box[c])
                /\ \A n \in subgraphs[sg].nodes : BoxContains(sg_box[sg], NodeBox(n))

\* The overlap test of _ensure_subgraph_spacing, in both axes.
BoxesOverlap(b1, b2) ==
    /\ b1[1] < b2[3] /\ b1[3] > b2[1]
    /\ b1[2] < b2[4] /\ b1[4] > b2[2]

(***************************************************************************)
(* C12: after _ensure_subgraph_spacing no two root-level subgraphs that    *)
(* have nodes have overlapping boxes.                                      *)
(***************************************************************************)
C12_RootBoxesDoNotOverlap ==
    BoxesComputed =>
        \A i, j \in SeqRange(RootSubgraphs) :
            i # j => ~BoxesOverlap(sg_box[i], sg_box[j])

(***************************************************************************)
(* Placement of deep graphs: a chain 1 -> 2 -> ... -> n of up to           *)
(* MaxChainNodes nodes, open or closed into a cycle by the edge n -> 1,    *)
(* without subgraphs (so the loop over subgraph roots has nothing to do).  *)
(***************************************************************************)
Chain(n) == [i \in 1..(n - 1) |-> <<i, i + 1>>]

InitChain ==
    /\ numNodes \in 1..MaxChainNodes
    /\ edges \in {Chain(numNodes), Chain(numNodes) \o << <<numNodes, 1>> >>}
    /\ graph_direction \in {"LR", "TD"}
    /\ subgraphNodes = {}
    /\ grid = EmptyGrid
    /\ grid_coord = [n \in 1..numNodes |-> None]
    /\ highest_position_per_level = [l \in {} |-> 0]
    /\ root_nodes = <<>>
    /\ external_root_nodes = <<>>
    /\ subgraph_root_nodes = <<>>
    /\ cursor = 0
    /\ pc = "find_roots"
    /\ JunctionIdle
    /\ CanvasIdle
    /\ PathIdle
    /\ SimplifyIdle
    /\ RenderIdle
    /\ GrowIdle
    /\ FlipIdle
    /\ HeapIdle

NextChain ==
    \/ FindRoots
    \/ PlaceRoot
    \/ RootsPlaced
    \/ PlaceChildren

SpecChain == InitChain /\ [][NextChain]_vars

(***************************************************************************)
(* C13: create_mapping's placement never fails, and when it has finished   *)
(* every node has a grid position.                                         *)
(***************************************************************************)
C13_PlacementCompletes ==
    /\ pc # "failed"
    /\ pc = "placed" => \A n \in 1..numNodes : grid_coord[n] # None

(***************************************************************************)
(* render_mermaid_ascii on diagrams of up to MaxDrawNodes nodes,           *)
(* MaxDrawEdges edges and MaxDrawSubgraphs subgraphs, in both character    *)
(* sets, with node labels drawn from NodeLabels.  A BT diagram is laid out *)
(* as TD (__init__.py, line 160) and its canvas is flipped at the end.     *)
(***************************************************************************)
NodeLabels == {<<"a">>, <<"a", "v">>}

InitDraw ==
    /\ numNodes \in 1..MaxDrawNodes
    /\ edges \in EdgeLists(numNodes, MaxDrawEdges)
    /\ bottom_to_top \in BOOLEAN
    /\ graph_direction \in (IF bottom_to_top THEN {"TD"} ELSE {"LR", "TD"})
    /\ subgraphs \in SubgraphLists(numNodes, MaxDrawSubgraphs)
    /\ subgraphNodes = UNION {subgraphs[i].nodes : i \in 1..Len(subgraphs)}
    /\ grid = EmptyGrid
    /\ grid_coord = [n \in 1..numNodes |-> None]
    /\ highest_position_per_level = [l \in {} |-> 0]
    /\ root_nodes = <<>>
    /\ external_root_nodes = <<>>
    /\ subgraph_root_nodes = <<>>
    /\ cursor = 0
    /\ pc = "find_roots"
    /\ edge_text_len \in [1..Len(edges) -> {0, LabelLen}]
    /\ padding_x = 5
    /\ padding_y = 5
    /\ box_border_padding = 1
    /\ display_label \in [1..numNodes -> NodeLabels]
    /\ RenderStart
    /\ base = <<>>
    /\ offset = <<0, 0>>
    /\ use_ascii \in BOOLEAN
    /\ overlays = <<>>
    /\ merged = None
    /\ JunctionIdle
    /\ PathIdle
    /\ SimplifyIdle
    /\ GrowIdle
    /\ FlipIdle
    /\ HeapIdle

NextDraw ==
    \/ NextPlace
    \/ NextLayout
    \/ FlipCanvasVertically

SpecDraw == InitDraw /\ [][NextDraw]_vars

\* The cell of graph.canvas on which draw_graph put the i-th character of
\* the label of node n.
LabelCell(n, i) ==
    <<drawing_coord[n][1] + BoxLabel(n)[i][1], drawing_coord[n][2] + BoxLabel(n)[i][2]>>

(***************************************************************************)
(* C14: the flip of a bottom-to-top rendering leaves node labels alone:    *)
(* every label character the top-down canvas shows at its place in the     *)
(* node's box is shown unchanged, in the same column, in the mirrored row  *)
(* of the flipped canvas.                                                  *)
(***************************************************************************)
C14_FlipKeepsNodeLabels ==
    [][FlipCanvasVertically =>
           \A n \in 1..numNodes :
               \A i \in 1..Len(display_label[n]) :
                   LET x == LabelCell(n, i)[1]
                       y == LabelCell(n, i)[2]
                   IN canvas[x + 1][y + 1] = display_label[n][i]
                          => canvas'[x + 1][Len(canvas[x + 1]) - y] = display_label[n][i]]_vars

\* The characters the ASCII mode draws boxes, lines, corners, arrowheads and
\* group borders with.
AsciiGlyphs == {"+", "-", "|", "<", ">", "^", "v", "/", "\\", "*"}

\* The characters of the node labels, the edge labels and the group names,
\* and what the flip makes of them.
TextChars ==
    LET text == UNION {SeqRange(l) : l \in NodeLabels} \cup {"b"} \cup SeqRange(SubgraphName)
    IN text \cup {VERTICAL_FLIP_MAP[c] : c \in text \cap DOMAIN VERTICAL_FLIP_MAP}

\* The characters the five canvases of every drawn edge hold.
LayerChars ==
    UNION {UNION {{w[3] : w \in SeqRange(layers[e][kind].writes)} :
                     kind \in {"path", "box_start", "arrow_head", "corners", "label"}} :
              e \in {k \in 1..Len(layers) : layers[k] # <<>>}}

CanvasChars == UNION {SeqRange(canvas[i]) : i \in 1..Len(canvas)}

(***************************************************************************)
(* C19: with use_ascii true every character of graph.canvas, at every step *)
(* of the rendering and after the flip of a bottom-to-top diagram, and     *)
(* every character on the canvases draw_arrow returns, is a space, a       *)
(* character of a label or one of + - | < > ^ v / \ *; none is a Unicode   *)
(* box-drawing or triangle glyph.                                          *)
(***************************************************************************)
C19_AsciiOnly ==
    use_ascii =>
        /\ CanvasChars \cup LayerChars \subseteq {" "} \cup AsciiGlyphs \cup TextChars
        /\ (CanvasChars \cup LayerChars) \cap UNICODE_GLYPHS = {}

\* A flipped ASCII rendering with an edge, its arrowhead and a group border.
C19_Witness ==
    /\ use_ascii
    /\ rpc = "flipped"
    /\ edges # <<>>
    /\ \E s \in 1..Len(subgraphs) : subgraphs[s].nodes # {}
    /\ \E e \in 1..Len(edges) : layers[e] # <<>> /\ layers[e].arrow_head.writes # <<>>
    /\ {"+", "-", "|", "^"} \subseteq CanvasChars

(***************************************************************************)
(* increase_size on every canvas of bounds up to (MaxGrowX, MaxGrowY)      *)
(* whose cells are blank or hold a character, for every request from -1    *)
(* (set_canvas_size_to_grid on an empty grid) to one more than the bound.  *)
(***************************************************************************)
Canvases(max_x, max_y) ==
    UNION {[1..(x + 1) -> [1..(y + 1) -> {" ", "a"}]] : x \in 0..max_x, y \in 0..max_y}

IncreaseSize ==
    /\ grow_pc = "start"
    /\ grown_canvas' = increase_size(target_canvas, requested_x, requested_y)
    /\ grow_pc' = "grown"
    /\ UNCHANGED <<target_canvas, requested_x, requested_y>>
    /\ UNCHANGED notGrowVars

InitGrow ==
    /\ target_canvas \in Canvases(MaxGrowX, MaxGrowY)
    /\ requested_x \in -1..(MaxGrowX + 1)
    /\ requested_y \in -1..(MaxGrowY + 1)
    /\ grown_canvas = <<>>
    /\ grow_pc = "start"
    /\ PlaceIdle
    /\ JunctionIdle
    /\ CanvasIdle
    /\ PathIdle
    /\ SimplifyIdle
    /\ RenderIdle
    /\ FlipIdle
    /\ HeapIdle

NextGrow ==
    \/ IncreaseSize

SpecGrow == InitGrow /\ [][NextGrow]_vars

(***************************************************************************)
(* C20: increase_size keeps the character of every cell inside the         *)
(* original bounds, leaves a space on every other cell, gives the bounds   *)
(* max(new_x, old x) and max(new_y, old y), and returns the canvas as it   *)
(* was when the canvas already has the requested bounds.                   *)
(***************************************************************************)
C20_IncreaseSizeKeepsContent ==
    grow_pc = "grown" =>
        LET old == get_canvas_size(target_canvas)
        IN /\ Len(grown_canvas) = Max(requested_x, old[1]) + 1
           /\ \A i \in 1..Len(grown_canvas) :
                  /\ Len(grown_canvas[i]) = Max(requested_y, old[2]) + 1
                  /\ \A j \in 1..Len(grown_canvas[i]) :
                         grown_canvas[i][j] = IF i <= old[1] + 1 /\ j <= old[2] + 1
                                       THEN target_canvas[i][j]
                                       ELSE " "
           /\ (requested_x <= old[1] /\ requested_y <= old[2]) => grown_canvas = target_canvas

\* A canvas with a character on it grown in both dimensions.
C20_Witness ==
    /\ grow_pc = "grown"
    /\ requested_x > get_canvas_size(target_canvas)[1]
    /\ requested_y > get_canvas_size(target_canvas)[2]
    /\ \E i \in 1..Len(target_canvas) : \E j \in 1..Len(target_canvas[i]) :
           target_canvas[i][j] = "a" /\ grown_canvas[i][j] = "a"

(***************************************************************************)
(* create_mapping up to the end of its sizing loops (grid.py, lines        *)
(* 447-455) on graphs of up to MaxSizeNodes nodes whose labels have 0 to   *)
(* MaxLabelLen characters (the start and end states of a state diagram     *)
(* have the empty label), with box_border_padding from 0 to MaxPadding and *)
(* the node spacing 1 or the default 5.                                    *)
(***************************************************************************)
InitSizes ==
    /\ numNodes \in 1..MaxSizeNodes
    /\ edges \in EdgeLists(numNodes, MaxSizeEdges)
    /\ graph_direction \in {"LR", "TD"}
    /\ subgraphs \in SubgraphLists(numNodes, MaxSizeSubgraphs)
    /\ subgraphNodes = UNION {subgraphs[i].nodes : i \in 1..Len(subgraphs)}
    /\ grid = EmptyGrid
    /\ grid_coord = [n \in 1..numNodes |-> None]
    /\ highest_position_per_level = [l \in {} |-> 0]
    /\ root_nodes = <<>>
    /\ external_root_nodes = <<>>
    /\ subgraph_root_nodes = <<>>
    /\ cursor = 0
    /\ pc = "find_roots"
    /\ edge_text_len \in [1..Len(edges) -> {0, LabelLen}]
    /\ padding_x \in {1, 5}
    /\ padding_y = padding_x
    /\ box_border_padding \in 0..MaxPadding
    /\ display_label \in [1..numNodes -> {[i \in 1..k |-> "a"] : k \in 0..MaxLabelLen}]
    /\ bottom_to_top = FALSE
    /\ RenderStart
    /\ base = <<>>
    /\ offset = <<0, 0>>
    /\ use_ascii = FALSE
    /\ overlays = <<>>
    /\ merged = None
    /\ JunctionIdle
    /\ PathIdle
    /\ SimplifyIdle
    /\ GrowIdle
    /\ FlipIdle
    /\ HeapIdle

NextSizes ==
    \/ NextPlace
    \/ SetColumnWidths
    \/ DeterminePath
    \/ IncreaseGridSizeForPath
    \/ DetermineLabelLine

SpecSizes == InitSizes /\ [][NextSizes]_vars

(***************************************************************************)
(* C15: no step of create_mapping removes an index of column_width or of   *)
(* row_height or lowers the value stored for it.                           *)
(***************************************************************************)
C15_SizesNeverDecrease ==
    [][/\ \A k \in DOMAIN column_width :
              k \in DOMAIN column_width' /\ column_width'[k] >= column_width[k]
       /\ \A k \in DOMAIN row_height :
              k \in DOMAIN row_height' /\ row_height'[k] >= row_height[k]]_vars

\* The sizing loops are over, and the second node found the content column
\* of its block already wider than its own label needs.
C15_Witness ==
    /\ rpc = "coords"
    /\ numNodes = 2
    /\ grid_coord[1][1] = grid_coord[2][1]
    /\ Len(display_label[1]) > Len(display_label[2])
    /\ column_width[grid_coord[2][1] + 1] = 2 * box_border_padding + Len(display_label[1])
    /\ \E e \in 1..Len(edges) : label_line[e] # <<>>

(***************************************************************************)
(* C16: set_column_width on a node leaves the content column of its block  *)
(* at least max(1, 2 * box_border_padding + len(label)) wide and the       *)
(* content row at least 1 + 2 * box_border_padding high.                   *)
(***************************************************************************)
C16_ContentCellFitsLabel ==
    [][SetColumnWidths =>
           LET gc == grid_coord[node_idx]
               needed == 2 * box_border_padding + Len(display_label[node_idx])
           IN /\ column_width'[gc[1] + 1] >= Max(1, needed)
              /\ row_height'[gc[2] + 1] >= 1 + 2 * box_border_padding]_vars

\* The cells of the block a cell belongs to: the cells the occupancy map
\* gives the same node with the same top-left corner.
SameBlock(a, b) ==
    /\ a \in DOMAIN grid
    /\ b \in DOMAIN grid
    /\ \E o \in Origins : a \in Block(o) /\ b \in Block(o)

(***************************************************************************)
(* C17: a path get_path returns starts at the start, ends at the goal and  *)
(* moves by unit steps in the four grid directions; each of its cells      *)
(* other than the first and the last is absent from the occupancy map and  *)
(* has non-negative coordinates; when the start and the goal are cells of  *)
(* one node's block, no other cell of the path lies in that block.         *)
(***************************************************************************)
C17_PathIsFree ==
    search = "found" =>
        /\ path[1] = from_coord
        /\ path[Len(path)] = to_coord
        /\ UnitSteps(path)
        /\ \A i \in 2..(Len(path) - 1) :
               /\ path[i] \notin DOMAIN grid
               /\ path[i][1] >= 0
               /\ path[i][2] >= 0
        /\ SameBlock(from_coord, to_coord) =>
               \A i \in 2..(Len(path) - 1) : ~SameBlock(path[i], from_coord)

\* A path between two different cells of one block that leaves the block.
C17_Witness ==
    /\ search = "found"
    /\ SameBlock(from_coord, to_coord)
    /\ from_coord # to_coord
    /\ Len(path) > 2

\* The coordinate of a grid position along the flow axis, x for LR and y
\* for TD, and the one along the perpendicular axis.
FlowCoord(c) == IF graph_direction = "LR" THEN c[1] ELSE c[2]
PerpCoord(c) == IF graph_direction = "LR" THEN c[2] ELSE c[1]

(***************************************************************************)
(* C18: the iteration of the child loop for a parent places exactly the    *)
(* parent's children that have no position yet; each of them gets the flow *)
(* coordinate of the parent plus 4 and a perpendicular coordinate that is  *)
(* the next position of that level or a multiple of 4 beyond it, and no    *)
(* two of them get the same perpendicular coordinate.                      *)
(***************************************************************************)
C18_ChildrenOneLevelFurther ==
    [][(PlaceChildren /\ pc' # "failed") =>
           LET parent == cursor
               child_level == FlowCoord(grid_coord[parent]) + LevelStep
               placed == {c \in 1..numNodes : grid_coord[c] = None /\ grid_coord'[c] # None}
           IN /\ placed = {c \in SeqRange(get_children(parent)) : grid_coord[c] = None}
              /\ \A c \in placed :
                     /\ FlowCoord(grid_coord'[c]) = child_level
                     /\ PerpCoord(grid_coord'[c])
                            >= Level(highest_position_per_level, child_level)
                     /\ (PerpCoord(grid_coord'[c])
                             - Level(highest_position_per_level, child_level)) % LevelStep = 0
              /\ \A c, d \in placed :
                     c # d => PerpCoord(grid_coord'[c]) # PerpCoord(grid_coord'[d])]_vars

\* Two children of the first node placed one level after it, side by side.
C18_Witness ==
    /\ pc = "placed"
    /\ numNodes = 3
    /\ edges = << <<1, 2>>, <<1, 3>> >>
    /\ FlowCoord(grid_coord[2]) = FlowCoord(grid_coord[1]) + LevelStep
    /\ FlowCoord(grid_coord[3]) = FlowCoord(grid_coord[1]) + LevelStep
    /\ PerpCoord(grid_coord[3]) = PerpCoord(grid_coord[2]) + LevelStep

(***************************************************************************)
(* flip_canvas_vertically, twice, on every canvas of bounds up to          *)
(* (MaxFlipX, MaxFlipY) whose cells hold a glyph of the flip table, a      *)
(* space or a letter.                                                      *)
(***************************************************************************)
FlipChars == DOMAIN VERTICAL_FLIP_MAP \cup {" ", "a"}

FlipOnce ==
    /\ flip_pc = "start"
    /\ flipped_once' = flip_canvas_vertically(flip_canvas)
    /\ flip_pc' = "once"
    /\ UNCHANGED <<flip_canvas, flipped_twice>>
    /\ UNCHANGED notFlipVars

FlipTwice ==
    /\ flip_pc = "once"
    /\ flipped_twice' = flip_canvas_vertically(flipped_once)
    /\ flip_pc' = "twice"
    /\ UNCHANGED <<flip_canvas, flipped_once>>
    /\ UNCHANGED notFlipVars

InitFlip ==
    /\ flip_canvas \in UNION {[1..(x + 1) -> [1..(y + 1) -> FlipChars]] :
                                 x \in 0..MaxFlipX, y \in 0..MaxFlipY}
    /\ flipped_once = <<>>
    /\ flipped_twice = <<>>
    /\ flip_pc = "start"
    /\ PlaceIdle
    /\ JunctionIdle
    /\ CanvasIdle
    /\ PathIdle
    /\ SimplifyIdle
    /\ RenderIdle
    /\ GrowIdle
    /\ HeapIdle

NextFlip ==
    \/ FlipOnce
    \/ FlipTwice

SpecFlip == InitFlip /\ [][NextFlip]_vars

(***************************************************************************)
(* C21: flip_canvas_vertically applied twice gives back the canvas: the    *)
(* same character in every cell, rows in the original order.               *)
(***************************************************************************)
C21_FlipTwiceIsIdentity ==
    flip_pc = "twice" => flipped_twice = flip_canvas

\* A canvas of two rows with the letter v above an arrowhead: one flip
\* changes it, the second restores it.
C21_Witness ==
    /\ flip_pc = "twice"
    /\ Len(flip_canvas[1]) = 2
    /\ flip_canvas[1] = <<"v", "AD">>
    /\ flipped_once[1] = <<"AU", "^">>
    /\ flipped_twice[1] = <<"v", "AD">>

(***************************************************************************)
(* C22: when both candidate anchor pairs have a path, the edge gets the    *)
(* simplified path with fewer waypoints and that pair's directions, and    *)
(* the preferred pair's when the two have the same number of waypoints.    *)
(***************************************************************************)
C22_ShorterCandidateIsUsed ==
    rpc = "grow" =>
        LET from_node == edges[edge_idx][1]
            to_node == edges[edge_idx][2]
            dirs == determine_start_and_end_dir(from_node, to_node)
            preferred == PreferredSearch(from_node, to_node)
            alternative == AlternativeSearch(from_node, to_node)
        IN (preferred.search = "found" /\ alternative.search = "found") =>
               LET preferred_path == merge_path(preferred.path)
                   alternative_path == merge_path(alternative.path)
               IN IF Len(alternative_path) < Len(preferred_path)
                  THEN /\ edge_path[edge_idx] = alternative_path
                       /\ start_dir[edge_idx] = dirs[3]
                       /\ end_dir[edge_idx] = dirs[4]
                  ELSE /\ edge_path[edge_idx] = preferred_path
                       /\ start_dir[edge_idx] = dirs[1]
                       /\ end_dir[edge_idx] = dirs[2]

\* Both pairs have a path, of the same number of waypoints but not the
\* same, and the edge has the preferred one.
C22_Witness ==
    /\ rpc = "grow"
    /\ LET from_node == edges[edge_idx][1]
           to_node == edges[edge_idx][2]
           preferred == PreferredSearch(from_node, to_node)
           alternative == AlternativeSearch(from_node, to_node)
       IN /\ preferred.search = "found"
          /\ alternative.search = "found"
          /\ Len(merge_path(preferred.path)) = Len(merge_path(alternative.path))
          /\ merge_path(preferred.path) # merge_path(alternative.path)
          /\ edge_path[edge_idx] = merge_path(preferred.path)

\* Both pairs have a path and the alternative has fewer waypoints.
C22_AlternativeShorter ==
    /\ rpc = "grow"
    /\ LET from_node == edges[edge_idx][1]
           to_node == edges[edge_idx][2]
           preferred == PreferredSearch(from_node, to_node)
           alternative == AlternativeSearch(from_node, to_node)
       IN /\ preferred.search = "found"
          /\ alternative.search = "found"
          /\ Len(merge_path(alternative.path)) < Len(merge_path(preferred.path))

\* The width of the i-th segment of a path: the sum of the widths of the
\* columns from its leftmost to its rightmost cell.
SegmentWidth(p, i) ==
    LET left == IF p[i][1] <= p[i + 1][1] THEN p[i][1] ELSE p[i + 1][1]
        right == IF p[i][1] <= p[i + 1][1] THEN p[i + 1][1] ELSE p[i][1]
    IN SumOver(column_width, (left..right) \cap DOMAIN column_width)

(***************************************************************************)
(* C23: for an edge with a label and a non-empty path, determine_label_line*)
(* selects the first segment of the path at least as wide as the label, or *)
(* when there is none the earliest of the widest segments, and leaves the  *)
(* column at the middle x of the selected segment at least the label       *)
(* length plus 2 wide.                                                     *)
(***************************************************************************)
C23_LabelLineIsFirstFit ==
    [][(/\ rpc = "label"
        /\ edge_text_len[edge_idx] > 0
        /\ Len(edge_path[edge_idx]) > 0) =>
           LET p == edge_path[edge_idx]
               len_label == edge_text_len[edge_idx]
               segments == 1..(Len(p) - 1)
           IN \E i \in segments :
                  /\ label_line'[edge_idx] = <<p[i], p[i + 1]>>
                  /\ \/ /\ SegmentWidth(p, i) >= len_label
                        /\ \A j \in 1..(i - 1) : SegmentWidth(p, j) < len_label
                     \/ /\ \A j \in segments : SegmentWidth(p, j) < len_label
                        /\ \A j \in segments : SegmentWidth(p, j) <= SegmentWidth(p, i)
                        /\ \A j \in 1..(i - 1) : SegmentWidth(p, j) < SegmentWidth(p, i)
                  /\ LET x1 == p[i][1]
                         x2 == p[i + 1][1]
                         middle_x == Min(x1, x2) + (Max(x1, x2) - Min(x1, x2)) \div 2
                     IN /\ middle_x \in DOMAIN column_width'
                        /\ column_width'[middle_x] >= len_label + 2]_vars

\* A label line that is not the first segment of its path, on a column made
\* wide enough for the label.
C23_Witness ==
    \E e \in 1..Len(edges) :
        /\ e < edge_idx
        /\ edge_text_len[e] > 0
        /\ Len(edge_path[e]) > 2
        /\ label_line[e] # <<>>
        /\ label_line[e] # <<edge_path[e][1], edge_path[e][2]>>
        /\ column_width[MiddleX(label_line[e])] = edge_text_len[e] + 2

\* The ten glyphs that have a row in the merge table, and the arms of each
\* line glyph.
TableGlyphs == {"H", "V", "DR", "DL", "UR", "UL", "VR", "VL", "DH", "UH"}

Arms ==
    "H" :> {"left", "right"} @@ "V" :> {"up", "down"}
    @@ "DR" :> {"down", "right"} @@ "DL" :> {"down", "left"}
    @@ "UR" :> {"up", "right"} @@ "UL" :> {"up", "left"}
    @@ "VR" :> {"up", "down", "right"} @@ "VL" :> {"up", "down", "left"}
    @@ "DH" :> {"down", "left", "right"} @@ "UH" :> {"up", "left", "right"}
    @@ "VH" :> {"up", "down", "left", "right"}
    @@ "L" :> {"left"} @@ "U" :> {"up"} @@ "R" :> {"right"} @@ "D" :> {"down"}

(***************************************************************************)
(* C24: for every ordered pair of the ten glyphs that have a row in the    *)
(* merge table, the arms of merge_junctions' result are the union of the   *)
(* arms of the two; the horizontal with the vertical line gives the cross, *)
(* and a corner with a straight line gives a T-piece.                      *)
(***************************************************************************)
C24_MergeIsUnionOfArms ==
    (junction # "" /\ c1 \in TableGlyphs /\ c2 \in TableGlyphs) =>
        /\ junction \in DOMAIN Arms
        /\ Arms[junction] = Arms[c1] \cup Arms[c2]
        /\ ({c1, c2} = {"H", "V"}) => junction = "VH"
        /\ (c1 \in {"DR", "DL", "UR", "UL"} /\ c2 \in {"H", "V"}) =>
               junction \in {"VR", "VL", "DH", "UH"}

\* Two opposite corners merged into the cross.
C24_Witness ==
    /\ c1 = "DR"
    /\ c2 = "UL"
    /\ junction = "VH"

(***************************************************************************)
(* A MinHeap under any sequence of push and pop, with priorities from 0 to *)
(* MaxPriority and at most MaxHeapSize items held.                         *)
(***************************************************************************)
MaxPriority == 3
MaxHeapSize == 4

HeapPush ==
    /\ heap_op # "idle"
    /\ Len(heap_items) < MaxHeapSize
    /\ \E coord \in {<<0, 0>>, <<1, 0>>}, priority \in 0..MaxPriority :
           heap_items' = push(heap_items, <<coord, priority>>)
    /\ heap_returned' = None
    /\ heap_op' = "push"
    /\ UNCHANGED notHeapVars

\* pop, lines 52-60: None on the empty heap, and otherwise the first item.
HeapPop ==
    /\ heap_op # "idle"
    /\ IF Len(heap_items) = 0
       THEN /\ heap_returned' = None
            /\ UNCHANGED heap_items
       ELSE /\ heap_returned' = heap_items[1]
            /\ heap_items' = pop(heap_items)
    /\ heap_op' = "pop"
    /\ UNCHANGED notHeapVars

InitHeap ==
    /\ heap_items = <<>>
    /\ heap_returned = None
    /\ heap_op = "new"
    /\ PlaceIdle
    /\ JunctionIdle
    /\ CanvasIdle
    /\ PathIdle
    /\ SimplifyIdle
    /\ RenderIdle
    /\ GrowIdle
    /\ FlipIdle

NextHeap ==
    \/ HeapPush
    \/ HeapPop

SpecHeap == InitHeap /\ [][NextHeap]_vars

\* The number of items of a heap that are the given item.
Occurrences(items, item) == Cardinality({i \in 1..Len(items) : items[i] = item})

(***************************************************************************)
(* C25: after any pushes and pops no item of the MinHeap has a smaller     *)
(* priority than its parent; a pop returns an item held whose priority is  *)
(* minimal and removes that one item; a push adds one item, a pop on a     *)
(* non-empty heap removes one, and a pop on the empty heap returns None    *)
(* and leaves it empty.                                                    *)
(***************************************************************************)
C25_HeapIsMinHeap ==
    /\ [](\A i \in 2..Len(heap_items) : heap_items[i \div 2][2] <= heap_items[i][2])
    /\ [][/\ heap_op' = "push" => Len(heap_items') = Len(heap_items) + 1
          /\ (heap_op' = "pop" /\ heap_items # <<>>) =>
                 /\ Len(heap_items') = Len(heap_items) - 1
                 /\ \A i \in 1..Len(heap_items) : heap_returned'[2] <= heap_items[i][2]
                 /\ \A i \in 1..Len(heap_items) :
                        Occurrences(heap_items', heap_items[i]) =
                            Occurrences(heap_items, heap_items[i])
                            - (IF heap_items[i] = heap_returned' THEN 1 ELSE 0)
          /\ (heap_op' = "pop" /\ heap_items = <<>>) =>
                 /\ heap_returned' = None
                 /\ heap_items' = <<>>]_vars

\* A pop from four items has returned an item smaller than the three that
\* remain, whose smallest is at the root.
C25_Witness ==
    /\ heap_op = "pop"
    /\ heap_returned # None
    /\ Len(heap_items) = 3
    /\ heap_returned[2] < heap_items[1][2]
    /\ heap_items[1][2] < heap_items[2][2]
    /\ heap_items[3][2] < heap_items[2][2]

\* The step from one cell to the next, as a vector.
StepOf(a, b) == <<b[1] - a[1], b[2] - a[2]>>

\* The indexes of a path that are its first, its last, or an interior point
\* whose incoming and outgoing step differ.
Turns(p) ==
    {i \in 1..Len(p) : i = 1 \/ i = Len(p) \/ StepOf(p[i - 1], p[i]) # StepOf(p[i], p[i + 1])}

\* The points of a path at a set of indexes, in the order of the path.
RECURSIVE PointsAt(_, _)
PointsAt(p, indexes) ==
    IF indexes = {} THEN <<>>
    ELSE LET first == CHOOSE i \in indexes : \A j \in indexes : i <= j
         IN <<p[first]>> \o PointsAt(p, indexes \ {first})

\* The points i..j of a path lie on one grid line / advance by one same step.
Collinear(p, i, j) ==
    \/ \A k \in i..j : p[k][1] = p[i][1]
    \/ \A k \in i..j : p[k][2] = p[i][2]

SameDirectionRun(p, i, j) ==
    \A k \in (i + 1)..(j - 1) : StepOf(p[k - 1], p[k]) = StepOf(p[k], p[k + 1])

\* What C26 states apart from the runs: the first and last point and the
\* order are kept, exactly the interior points between two equal steps are
\* removed, consecutive segments of the result differ in direction, and a
\* path of at most two points is unchanged.
MergeKeepsTurns(p, m) ==
    /\ m = PointsAt(p, Turns(p))
    /\ Len(p) >= 1 => (m[1] = p[1] /\ m[Len(m)] = p[Len(p)])
    /\ Len(p) <= 2 => m = p
    /\ \A i \in 2..(Len(m) - 1) :
           LET s1 == StepOf(m[i - 1], m[i])
               s2 == StepOf(m[i], m[i + 1])
           IN ~(s1[1] * s2[2] = s1[2] * s2[1] /\ s1[1] * s2[1] + s1[2] * s2[2] > 0)

(***************************************************************************)
(* C26: on a path of unit steps in the four directions merge_path keeps    *)
(* the first and the last point and the order, removes exactly the         *)
(* interior points between two equal steps, leaves no two consecutive      *)
(* segments in the same direction, reduces every run of three or more      *)
(* collinear points to its two endpoints, and returns a path of at most    *)
(* two points unchanged.                                                   *)
(***************************************************************************)
C26_MergeReducesCollinearRuns ==
    (simplify_pc = "once" /\ UnitSteps(raw_path)) =>
        /\ MergeKeepsTurns(raw_path, merged_path)
        /\ \A i, j \in 1..Len(raw_path) :
               (j >= i + 2 /\ Collinear(raw_path, i, j)) =>
                   \A k \in (i + 1)..(j - 1) : raw_path[k] \notin
                       {merged_path[n] : n \in 2..(Len(merged_path) - 1)}

(***************************************************************************)
(* C26, amended: the same, where the runs reduced to their endpoints are   *)
(* the runs of three or more points that advance by one same step; a point *)
(* at which the path steps back onto the cell it came from is kept.        *)
(***************************************************************************)
C26_MergeReducesStraightRuns ==
    (simplify_pc = "once" /\ UnitSteps(raw_path)) =>
        /\ MergeKeepsTurns(raw_path, merged_path)
        /\ \A i, j \in 1..Len(raw_path) :
               (j >= i + 2 /\ SameDirectionRun(raw_path, i, j)) =>
                   PointsAt(raw_path, Turns(raw_path) \ ((i + 1)..(j - 1))) = merged_path

\* A run of three points in one direction after a turn, reduced to its
\* endpoints.
C26_Witness ==
    /\ simplify_pc = "once"
    /\ raw_path = <<<<0, 0>>, <<0, 1>>, <<1, 1>>, <<2, 1>>>>
    /\ merged_path = <<<<0, 0>>, <<0, 1>>, <<2, 1>>>>

\* The cells a path to the goal may pass: free cells with non-negative
\* coordinates, and the goal itself.
Traversable(c) == (c[1] >= 0 /\ c[2] >= 0 /\ c \notin DOMAIN grid) \/ c = to_coord

\* The cells within `steps` unit steps of the cells of `reached`, through
\* traversable cells.
RECURSIVE WithinSteps(_, _, _)
WithinSteps(reached, frontier, steps) ==
    IF steps <= 0 \/ frontier = {} THEN reached
    ELSE LET next == {c \in UNION {Neighbours(f) : f \in frontier} :
                          Traversable(c) /\ c \notin reached}
         IN WithinSteps(reached \cup next, next, steps - 1)

(***************************************************************************)
(* C27: a path get_path returns on a grid with occupied cells has the      *)
(* least number of steps of all paths of unit steps from the start to the  *)
(* goal through traversable cells, although the heuristic is 1 more than   *)
(* the remaining distance at cells not aligned with the goal.              *)
(***************************************************************************)
C27_PathIsShortest ==
    (search = "found" /\ DOMAIN grid # {}) =>
        /\ Len(path) >= 1
        /\ Len(path) > 1 =>
               to_coord \notin WithinSteps({from_coord}, {from_coord}, Len(path) - 2)

\* A shortest path around a block, longer than the distance between its
\* ends, from a start at which the heuristic is 1 too high.
C27_Witness ==
    /\ search = "found"
    /\ DOMAIN grid # {}
    /\ Len(path) - 1 > Manhattan(from_coord, to_coord)
    /\ heuristic(from_coord, to_coord) = Manhattan(from_coord, to_coord) + 1
    /\ to_coord \in WithinSteps({from_coord}, {from_coord}, Len(path) - 1)

\* The cell next to a node's anchor on the side away from the node.
OutwardNeighbour(node, dir) ==
    LET anchor == grid_coord_direction(grid_coord[node], dir)
    IN <<anchor[1] + dir[1] - Middle[1], anchor[2] + dir[2] - Middle[2]>>

\* A cell with non-negative coordinates in a row or a column without any
\* cell of a node block.
InCorridor(c) ==
    /\ c[1] >= 0
    /\ c[2] >= 0
    /\ \/ \A b \in DOMAIN grid : b[1] # c[1]
       \/ \A b \in DOMAIN grid : b[2] # c[2]

(***************************************************************************)
(* C28: when an edge is routed after placement, both its preferred and its *)
(* alternative anchor pair have a path, the edge gets a path of at least   *)
(* two waypoints, and every anchor is one of Up, Down, Left and Right with *)
(* its outward neighbour at non-negative coordinates in a row or column    *)
(* that no node block occupies.                                            *)
(***************************************************************************)
C28_EveryEdgeIsRouted ==
    /\ rpc # "diverged"
    /\ rpc = "grow" =>
           LET from_node == edges[edge_idx][1]
               to_node == edges[edge_idx][2]
               dirs == determine_start_and_end_dir(from_node, to_node)
           IN /\ PreferredSearch(from_node, to_node).search = "found"
              /\ AlternativeSearch(from_node, to_node).search = "found"
              /\ Len(edge_path[edge_idx]) >= 2
              /\ \A i \in 1..4 : dirs[i] \in {Up, Down, Left, Right}
              /\ \A i \in {1, 3} : InCorridor(OutwardNeighbour(from_node, dirs[i]))
              /\ \A i \in {2, 4} : InCorridor(OutwardNeighbour(to_node, dirs[i]))
              /\ <<start_dir[edge_idx], end_dir[edge_idx]>>
                     \in {<<dirs[1], dirs[2]>>, <<dirs[3], dirs[4]>>}

\* An edge of a three-node graph back to a node placed diagonally before
\* its source, routed with two different candidate anchor pairs.
C28_Witness ==
    /\ rpc = "grow"
    /\ numNodes = 3
    /\ LET from_node == edges[edge_idx][1]
           to_node == edges[edge_idx][2]
           dirs == determine_start_and_end_dir(from_node, to_node)
       IN /\ grid_coord[to_node][1] < grid_coord[from_node][1]
          /\ grid_coord[to_node][2] < grid_coord[from_node][2]
          /\ <<dirs[1], dirs[2]>> # <<dirs[3], dirs[4]>>
          /\ PreferredSearch(from_node, to_node).search = "found"
          /\ AlternativeSearch(from_node, to_node).search = "found"
          /\ Len(edge_path[edge_idx]) >= 2

(***************************************************************************)
(* C29: both grid coordinates of every placed node are non-negative        *)
(* multiples of 4, as is every next position recorded for a level, and the *)
(* blocks of two placed nodes are disjoint.                                *)
(***************************************************************************)
C29_NodesOnLattice ==
    /\ \A n \in Nodes :
           grid_coord[n] # None =>
               /\ grid_coord[n][1] >= 0
               /\ grid_coord[n][2] >= 0
               /\ grid_coord[n][1] % 4 = 0
               /\ grid_coord[n][2] % 4 = 0
    /\ \A l \in DOMAIN highest_position_per_level :
           l % 4 = 0 /\ highest_position_per_level[l] % 4 = 0
    /\ \A m, n \in Nodes :
           (m # n /\ grid_coord[m] # None /\ grid_coord[n] # None) =>
               Block(grid_coord[m]) \cap Block(grid_coord[n]) = {}

\* Placement is over and one node is away from both axes.
C29_Witness ==
    /\ pc = "placed"
    /\ numNodes = 3
    /\ \E n \in Nodes : grid_coord[n] = <<4, 4>>
    /\ \A n \in Nodes : grid_coord[n] # None

\* A node that is the target of an edge from a node earlier in the list.
ChildOfEarlier(n) == \E i \in 1..Len(edges) : edges[i][2] = n /\ edges[i][1] < n

(***************************************************************************)
(* C30: in the child-placement loop every node has a grid position when it *)
(* is visited, whatever the edges (cycles, self-loops, edges from a later  *)
(* to an earlier node): a node that is not a root is the child of a node   *)
(* earlier in the list.                                                    *)
(***************************************************************************)
C30_VisitedNodeIsPlaced ==
    /\ (pc = "place_children" /\ cursor <= numNodes) => grid_coord[cursor] # None
    /\ pc \in {"place_roots", "place_children", "placed"} =>
           \A n \in Nodes : n \notin SeqRange(root_nodes) => ChildOfEarlier(n)

\* The loop is at a node that is the target of an edge from a later node
\* and was placed as the child of an earlier one.
C30_Witness ==
    /\ pc = "place_children"
    /\ cursor = 2
    /\ numNodes = 3
    /\ edges = << <<3, 2>>, <<1, 2>> >>
    /\ root_nodes = <<1, 3>>
    /\ grid_coord[2] # None
    /\ grid_coord[3] # None

=============================================================================
